---- MODULE Spec2Model ----
(***************************************************************************)
(* A model of the KUKUFM story generator: the chunked translation          *)
(* dispatcher (translator_agent.py), the episode parser (splitter_agent.py),*)
(* the fan-outs and the sequencer of main.py, and the Streamlit wizard     *)
(* (streamlit_app.py).                                                     *)
(*                                                                         *)
(* Texts are abstracted to what the code reads of them: a story text is    *)
(* the sequence of its paragraphs (the pieces re.split(r'\n\n+') yields),  *)
(* each paragraph given by its word count; a chunk is the sequence of the  *)
(* positions of the paragraphs joined into it.  A model call is a          *)
(* nondeterministic outcome: it returns, or it raises.                     *)
(***************************************************************************)
EXTENDS Integers, Sequences, FiniteSets, TLC

\* ------------------------------------------------------------------ bounds
MaxParagraphs == 3
MaxEpisodeParagraphs == 2
MaxNumEpisodes == 2
MaxParsed == 2
MaxEpisodeNumber == 2
\* refinements the operator asks for in one feedback loop
MaxRounds == 2
\* refinements the operator submits per feedback form of the Streamlit app
MaxWizardRounds == 1

\* ------------------------------------------------------- program constants
DefaultMaxChunkSize == 3000
ChunkPoolWorkers == 12
EpisodePoolCap == 10

\* Word counts a paragraph may have: none, half a chunk, more than a chunk.
ParagraphWords == {0, 1500, 3001}

Min(a, b) == IF a < b THEN a ELSE b

SeqsUpTo(S, n) == UNION {[1..k -> S] : k \in 1..n}

\* The texts translate_story is given: at least one paragraph (re.split
\* returns a non-empty list for every string).
Texts == SeqsUpTo(ParagraphWords, MaxParagraphs)
EpisodeTexts == SeqsUpTo(ParagraphWords, MaxEpisodeParagraphs)

VARIABLES
    calls,            \* translate_story activations, by call id
    episodes,         \* the episode list the split stage returned
    ep_tasks,         \* translate_episodes_parallel: the pool's tasks, by position
    translated_episodes, \* translate_episodes_parallel: the results dict
    combined_file,    \* translate_episodes_parallel: full_story_<language>.md
    tep_pc,           \* translate_episodes_parallel: "off" | "pool" | "done"
    fo_pc,            \* the fan-outs of generate_story_pipeline: "off" | "enhance" | "dialogue" | "done"
    enh_tasks,        \* the enhancement pool's tasks, by position in episodes
    enhanced_episodes, \* the enhanced_episodes dict
    dlg_tasks,        \* the dialogue pool's tasks, by position in episodes
    dialogues,        \* the dialogues dict
    pipe_pc,          \* generate_story_pipeline: the statement it is at
    stages,           \* generate_story_pipeline: the stages entered, in order
    outline,          \* the current outline
    characters,       \* the current characters
    answer,           \* what the last input() of a feedback loop returned
    refine_calls,     \* calls of refine_outline and of refine_characters so far
    model_failed,     \* whether a model call of the run has raised
    arg_num_episodes, \* generate_story_pipeline: the num_episodes argument
    selected_plots,   \* generate_story_pipeline: how many plot options it selected
    outline_feedback, \* the feedback texts typed in the outline loop, in order
    last_refine,      \* the arguments of the last refine_outline call
    refine_raised,    \* whether the last refine_characters call caught an exception
    ss,               \* the Streamlit app: st.session_state
    finalized,        \* the Streamlit app: finalize_story has run to its end
    dg_pc,            \* generate_dialogue of the app: "off" or "pool"
    dg_tasks,         \* generate_dialogue of the app: one worker task per episode
    dg_lists,         \* the list objects created for st.session_state.error_log
    dg_dialogues,     \* generate_dialogue of the app: its local dialogues dict
    tsp_pc,           \* translate_story_parallel: "off", "pool" or "returned"
    target_languages, \* translate_story_parallel: its target_languages argument
    tsp_tasks,        \* translate_story_parallel: one task per language, by position
    translated_files, \* translate_story_parallel: its translated_files list
    pe_pc,            \* _parse_episodes: "off", "loop", "parsed", "returned", "raised"
    pe_response,      \* _parse_episodes: what each approach makes of the response
    pe_num,           \* _parse_episodes: its num_episodes argument
    pe_called,        \* _parse_episodes: the approaches called so far, in order
    pe_episodes,      \* _parse_episodes: its local list episodes
    pe_result,        \* _parse_episodes: the list it returned
    cc_pc,            \* integrated_pipeline.main: its position in step 6
    plot_options,     \* integrated_pipeline.main: the list plot_options
    cc_response,      \* integrated_pipeline.main: the model response of the check
    cc_issues,        \* integrated_pipeline.main: the list issues
    cc_accessed,      \* the indices at which plot_options was read or written
    da_pc,            \* DialogueAgent.generate_dialogue: its position
    da_input,         \* DialogueAgent.generate_dialogue: its arguments
    da_invocations,   \* DialogueAgent.generate_dialogue: the model invocations made
    da_result,        \* DialogueAgent.generate_dialogue: what it returned
    rp_pc,            \* display_consistency_report: "off", "called" or "returned"
    rp_issues,        \* display_consistency_report: its issues argument
    rp_result,        \* display_consistency_report: the value it returned
    sc_pc,            \* _split_into_chunks: "off", "called" or "returned"
    sc_text,          \* _split_into_chunks: the words of each paragraph of text
    sc_max,           \* _split_into_chunks: its max_chunk_size argument
    sc_chunks,        \* _split_into_chunks: the chunks it returned
    th_pc,            \* test.py main: "off", "run" or "returned"
    th_results,       \* test.py main: the dict results
    th_checked,       \* test.py main: the components checked so far, in order
    th_values,        \* test.py main: what each component test returned
    th_saved,         \* test.py main: what save_test_results was called with
    gi_pc,            \* generate_improved_suggestions: "off" / "called" / "returned"
    gi_problems,      \* generate_improved_suggestions: the indices of problem_plot_options
    gi_response,      \* generate_improved_suggestions: the lines of the model response, or the failure
    gi_result         \* generate_improved_suggestions: the list it returned

\* translate_story and translate_episodes_parallel
trvars == <<calls, ep_tasks, translated_episodes, combined_file, tep_pc>>
\* the enhancement and dialogue fan-outs
fovars == <<fo_pc, enh_tasks, enhanced_episodes, dlg_tasks, dialogues>>

\* the sequencer of generate_story_pipeline
pivars == <<pipe_pc, stages, outline, characters, answer, refine_calls, model_failed,
            arg_num_episodes, selected_plots, outline_feedback, last_refine,
            refine_raised>>

\* the Streamlit wizard
wzvars == <<ss, finalized, dg_pc, dg_tasks, dg_lists, dg_dialogues>>

\* translate_story_parallel
lgvars == <<tsp_pc, target_languages, tsp_tasks, translated_files>>

\* _parse_episodes, step by step
pevars == <<pe_pc, pe_response, pe_num, pe_called, pe_episodes, pe_result>>

\* the consistency check of integrated_pipeline.py
ccvars == <<cc_pc, plot_options, cc_response, cc_issues, cc_accessed>>

\* DialogueAgent.generate_dialogue
davars == <<da_pc, da_input, da_invocations, da_result>>

\* display_consistency_report
rpvars == <<rp_pc, rp_issues, rp_result>>

\* _split_into_chunks
scvars == <<sc_pc, sc_text, sc_max, sc_chunks>>

\* the test harness of test.py
thvars == <<th_pc, th_results, th_checked, th_values, th_saved>>

\* generate_improved_suggestions
givars == <<gi_pc, gi_problems, gi_response, gi_result>>

\* the variables added after the wizard
exvars == <<lgvars, pevars, ccvars, davars, rpvars, scvars, thvars, givars>>

vars == <<episodes, trvars, fovars, pivars, wzvars, exvars>>

\* What an action on the translation state leaves alone, and so on.
notTr == <<fovars, pivars, wzvars, exvars>>
notFo == <<trvars, pivars, wzvars, exvars>>
notPi == <<trvars, fovars, wzvars, exvars>>
notWz == <<trvars, fovars, pivars, exvars>>
notEx == <<episodes, trvars, fovars, pivars, wzvars>>
notLg == <<notEx, pevars, ccvars, davars, rpvars, scvars, thvars, givars>>
notPe == <<notEx, lgvars, ccvars, davars, rpvars, scvars, thvars, givars>>
notCc == <<notEx, lgvars, pevars, davars, rpvars, scvars, thvars, givars>>
notDa == <<notEx, lgvars, pevars, ccvars, rpvars, scvars, thvars, givars>>
notRp == <<notEx, lgvars, pevars, ccvars, davars, scvars, thvars, givars>>
notSc == <<notEx, lgvars, pevars, ccvars, davars, rpvars, thvars, givars>>
notTh == <<notEx, lgvars, pevars, ccvars, davars, rpvars, scvars, givars>>
notGi == <<notEx, lgvars, pevars, ccvars, davars, rpvars, scvars, thvars>>

\* A dict: a function on the keys put so far.
EmptyDict == <<>>
DictPut(d, k, v) == [x \in (DOMAIN d) \cup {k} |-> IF x = k THEN v ELSE d[x]]

\* ------------------------------------------------ StorySplitterAgent
\* A string field of an Episode: a text and, for the generated
\* placeholders "Episode 3", "Content for episode 3 ...", the number in it.
Txt(t) == [s |-> t, n |-> 0]
EmptyTxt == Txt("")
GenericTitle(i) == [s |-> "Episode ", n |-> i]
GenericContent(i) == [s |-> "Content for episode ", n |-> i]
GenericCliffhanger(i) == [s |-> "Cliffhanger for episode ", n |-> i]

\* The generic episode _parse_episodes creates for number i.
GenericEpisode(i, num_episodes) ==
    [number |-> i, title |-> GenericTitle(i), content |-> GenericContent(i),
     cliffhanger |-> IF i = num_episodes THEN EmptyTxt ELSE GenericCliffhanger(i)]

\* episodes.sort(key=lambda x: x.number): stable.
RECURSIVE InsertByNumber(_, _)
InsertByNumber(sorted, e) ==
    IF sorted = <<>> THEN <<e>>
    ELSE IF sorted[Len(sorted)].number <= e.number THEN Append(sorted, e)
    ELSE Append(InsertByNumber(SubSeq(sorted, 1, Len(sorted) - 1), e), sorted[Len(sorted)])

RECURSIVE SortByNumberLoop(_, _, _)
SortByNumberLoop(s, k, acc) ==
    IF k > Len(s) THEN acc ELSE SortByNumberLoop(s, k + 1, InsertByNumber(acc, s[k]))

SortByNumber(s) == SortByNumberLoop(s, 1, <<>>)

Numbers(eps) == {eps[k].number : k \in DOMAIN eps}

\* The loop of lines 176-184: a generic episode for every number of
\* 1..num_episodes that no episode has yet, appended in ascending order.
RECURSIVE PadLoop(_, _, _, _)
PadLoop(eps, current_numbers, i, num_episodes) ==
    IF i > num_episodes THEN eps
    ELSE IF i \notin current_numbers
         THEN PadLoop(Append(eps, GenericEpisode(i, num_episodes)),
                      current_numbers, i + 1, num_episodes)
         ELSE PadLoop(eps, current_numbers, i + 1, num_episodes)

\* The loop over parsing_approaches: the episodes of the first approach that
\* neither raised nor returned an empty list; none when all failed.
RECURSIVE FirstParsed(_, _)
FirstParsed(outcomes, k) ==
    IF k > Len(outcomes) THEN <<>>
    ELSE IF ~outcomes[k].raised /\ Len(outcomes[k].episodes) > 0
         THEN outcomes[k].episodes
         ELSE FirstParsed(outcomes, k + 1)

\* _parse_episodes without the fallback of lines 158-167.
AfterFallbackNone(parsed, num_episodes) == parsed

\* Lines 158-167: generic episodes when every parsing attempt failed.
AfterFallback(parsed, num_episodes) ==
    IF parsed = <<>>
    THEN [i \in 1..num_episodes |-> GenericEpisode(i, num_episodes)]
    ELSE parsed

\* _parse_episodes from line 157 on, given the list the loop over the
\* approaches left in episodes: fallback, sort, padding, and the final loop
\* that empties the cliffhanger of the episodes numbered num_episodes.
AfterLoop(parsed, num_episodes) ==
    LET sorted == SortByNumber(AfterFallback(parsed, num_episodes))
        padded == IF Len(sorted) < num_episodes
                  THEN SortByNumber(PadLoop(sorted, Numbers(sorted), 1, num_episodes))
                  ELSE sorted
    IN [k \in DOMAIN padded |->
           IF padded[k].number = num_episodes
           THEN [padded[k] EXCEPT !.cliffhanger = EmptyTxt]
           ELSE padded[k]]

\* _parse_episodes, given what each of the four parsing approaches does on
\* the response: outcomes[k] = [raised, episodes].
ParseEpisodes(outcomes, num_episodes) ==
    AfterLoop(FirstParsed(outcomes, 1), num_episodes)

\* The responses considered: what a parsing approach can make of them.
ParsedTitles == {Txt("A"), Txt("B")}
ParsedEpisodes ==
    [number : 1..MaxEpisodeNumber, title : ParsedTitles,
     content : {Txt("c")}, cliffhanger : {Txt("x")}]
ParsedLists == SeqsUpTo(ParsedEpisodes, MaxParsed)
Raises == [raised |-> TRUE, episodes |-> <<>>]
FindsNothing == [raised |-> FALSE, episodes |-> <<>>]
Finds(eps) == [raised |-> FALSE, episodes |-> eps]

\* Every approach fails (raises or finds nothing), or the approaches before
\* the k-th fail and the k-th parses a list; the later ones do not run.
AllFail == [1..4 -> {Raises, FindsNothing}]
ResponseCases ==
    AllFail \cup
    {[j \in 1..4 |-> IF j < k THEN before[j] ELSE IF j = k THEN Finds(eps) ELSE FindsNothing] :
        k \in 1..4, before \in AllFail, eps \in ParsedLists}

NoEpisodeParsed(outcomes) == FirstParsed(outcomes, 1) = <<>>

NumEpisodesChoices == 1..MaxNumEpisodes

\* The lists split_story can return.
SplitResults ==
    {ParseEpisodes(r, n) : r \in ResponseCases, n \in NumEpisodesChoices}

\* ---------------------------------------------- TranslatorAgent (pure part)

\* _split_into_chunks with "current_chunk = []" in place of line 78: the
\* paragraph that closes a chunk is left out.
RECURSIVE SplitLoopDropping(_, _, _, _, _, _)
SplitLoopDropping(paragraphs, k, max_chunk_size, chunks, current_chunk, current_word_count) ==
    IF k > Len(paragraphs)
    THEN IF current_chunk # <<>> THEN Append(chunks, current_chunk) ELSE chunks
    ELSE LET paragraph_word_count == paragraphs[k] IN
         IF current_word_count + paragraph_word_count > max_chunk_size
            /\ current_chunk # <<>>
         THEN SplitLoopDropping(paragraphs, k + 1, max_chunk_size,
                                Append(chunks, current_chunk), <<>>, 0)
         ELSE SplitLoopDropping(paragraphs, k + 1, max_chunk_size, chunks,
                                Append(current_chunk, k),
                                current_word_count + paragraph_word_count)

\* _split_into_chunks: the paragraphs are taken in order; a paragraph that
\* would take the current chunk over max_chunk_size closes it, unless the
\* current chunk is empty.
RECURSIVE SplitLoop(_, _, _, _, _, _)
SplitLoop(paragraphs, k, max_chunk_size, chunks, current_chunk, current_word_count) ==
    IF k > Len(paragraphs)
    THEN IF current_chunk # <<>> THEN Append(chunks, current_chunk) ELSE chunks
    ELSE LET paragraph_word_count == paragraphs[k] IN
         IF current_word_count + paragraph_word_count > max_chunk_size
            /\ current_chunk # <<>>
         THEN SplitLoop(paragraphs, k + 1, max_chunk_size,
                        Append(chunks, current_chunk), <<k>>, paragraph_word_count)
         ELSE SplitLoop(paragraphs, k + 1, max_chunk_size, chunks,
                        Append(current_chunk, k),
                        current_word_count + paragraph_word_count)

SplitIntoChunks(text, max_chunk_size) ==
    SplitLoop(text, 1, max_chunk_size, <<>>, <<>>, 0)

\* What the model returns for a chunk, and the two error markers.
Translated(chunk) == [tag |-> "translated", of |-> chunk]
ChunkError == [tag |-> "translation_error", of |-> <<>>]
FutureError(index) == [tag |-> "translation_error_in_chunk", of |-> <<index + 1>>]

\* _translate_chunk with the try/except left out: the exception reaches the future.
TranslateChunkNoCatch(chunk, outcome) ==
    IF outcome = "ok"
    THEN [kind |-> "value", val |-> Translated(chunk)]
    ELSE [kind |-> "exception", val |-> ChunkError]

\* _translate_chunk: what the future of one chunk ends with.  Every
\* exception of the model call is caught and becomes the marker string.
TranslateChunk(chunk, outcome) ==
    IF outcome = "ok"
    THEN [kind |-> "value", val |-> Translated(chunk)]
    ELSE [kind |-> "value", val |-> ChunkError]

\* list.sort(key=lambda x: x[0]): a stable insertion sort on the first component.
RECURSIVE InsertByIndex(_, _)
InsertByIndex(sorted, x) ==
    IF sorted = <<>> THEN <<x>>
    ELSE IF sorted[Len(sorted)][1] <= x[1] THEN Append(sorted, x)
    ELSE Append(InsertByIndex(SubSeq(sorted, 1, Len(sorted) - 1), x), sorted[Len(sorted)])

RECURSIVE SortLoop(_, _, _)
SortLoop(s, k, acc) ==
    IF k > Len(s) THEN acc ELSE SortLoop(s, k + 1, InsertByIndex(acc, s[k]))

\* The sort left out: the pairs stay in completion order.
SortByIndexNoSort(s) == s

SortByIndex(s) == SortLoop(s, 1, <<>>)

\* "\n\n".join(chunk for _, chunk in translated_chunks): the pieces in order.
JoinChunks(pairs) == [k \in 1..Len(pairs) |-> pairs[k][2]]

\* The entry the as_completed loop appends for a finished future.
CollectEntry(index, f) ==
    IF f.kind = "value" THEN <<index, f.val>> ELSE <<index, FutureError(index)>>

NoFuture == [st |-> "queued", outcome |-> "none", kind |-> "none",
             val |-> ChunkError, collected |-> FALSE]

IdleCall == [pc |-> "idle", text |-> <<>>, chunks |-> <<>>, fut |-> <<>>,
             translated_chunks |-> <<>>, translated_text |-> <<>>]

\* translate_story up to the end of the submit loop: the text is split and
\* one future per chunk is queued.
EnterTranslateStory(text) ==
    LET chunks == SplitIntoChunks(text, DefaultMaxChunkSize) IN
    [pc |-> "pool", text |-> text, chunks |-> chunks,
     fut |-> [i \in 1..Len(chunks) |-> NoFuture],
     translated_chunks |-> <<>>, translated_text |-> <<>>]

CallIds == DOMAIN calls

NumRunning(c) == Cardinality({i \in DOMAIN calls[c].fut : calls[c].fut[i].st = "running"})

\* A worker of the call's pool takes the next queued chunk (the work queue is
\* FIFO) and enters the model call.
TS_Start(c, i) ==
    /\ calls[c].pc = "pool"
    /\ i \in DOMAIN calls[c].fut
    /\ calls[c].fut[i].st = "queued"
    /\ \A j \in 1..(i - 1) : calls[c].fut[j].st # "queued"
    /\ NumRunning(c) < ChunkPoolWorkers
    /\ calls' = [calls EXCEPT ![c].fut[i].st = "running"]
    /\ UNCHANGED <<episodes, ep_tasks, translated_episodes, combined_file, tep_pc, notTr>>

\* The model call of chunk i ends, and with it _translate_chunk.
TS_Finish(c, i, outcome) ==
    /\ calls[c].pc = "pool"
    /\ i \in DOMAIN calls[c].fut
    /\ calls[c].fut[i].st = "running"
    /\ LET r == TranslateChunk(calls[c].chunks[i], outcome) IN
       calls' = [calls EXCEPT ![c].fut[i] =
                    [st |-> "done", outcome |-> outcome, kind |-> r.kind,
                     val |-> r.val, collected |-> FALSE]]
    /\ UNCHANGED <<episodes, ep_tasks, translated_episodes, combined_file, tep_pc, notTr>>

\* One iteration of the as_completed loop: any finished future not yet seen.
TS_Collect(c, i) ==
    /\ calls[c].pc = "pool"
    /\ i \in DOMAIN calls[c].fut
    /\ calls[c].fut[i].st = "done"
    /\ ~calls[c].fut[i].collected
    /\ calls' = [calls EXCEPT
                   ![c].fut[i].collected = TRUE,
                   ![c].translated_chunks =
                       Append(@, CollectEntry(i - 1, calls[c].fut[i]))]
    /\ UNCHANGED <<episodes, ep_tasks, translated_episodes, combined_file, tep_pc, notTr>>

\* After the loop: sort, join, return.
TS_Return(c) ==
    /\ calls[c].pc = "pool"
    /\ \A i \in DOMAIN calls[c].fut : calls[c].fut[i].collected
    /\ calls' = [calls EXCEPT
                   ![c].pc = "returned",
                   ![c].translated_text =
                       JoinChunks(SortByIndex(calls[c].translated_chunks))]
    /\ UNCHANGED <<episodes, ep_tasks, translated_episodes, combined_file, tep_pc, notTr>>

ChunkActions ==
    \E c \in CallIds :
        \/ \E i \in DOMAIN calls[c].fut : TS_Start(c, i)
        \/ \E i \in DOMAIN calls[c].fut : \E outcome \in {"ok", "fail"} : TS_Finish(c, i, outcome)
        \/ \E i \in DOMAIN calls[c].fut : TS_Collect(c, i)
        \/ TS_Return(c)

\* No characters yet.
NoCharacters == [base |-> "none", feedback |-> <<>>]

\* init_session_state: the defaults of st.session_state.  error_log is the
\* list the key refers to, 0 while the key is absent.
InitSession ==
    [current_step |-> 0, story_dir |-> "none", outline |-> <<>>, plot |-> "none",
     characters |-> NoCharacters, enhanced_episodes |-> EmptyDict,
     dialogues |-> EmptyDict, show_outline_feedback |-> FALSE,
     show_character_feedback |-> FALSE, translated_files |-> {},
     target_languages |-> {}, num_episodes |-> 0, error_log |-> 0]

\* translate_story_parallel not running.
LanguagesOff ==
    /\ tsp_pc = "off"
    /\ target_languages = <<>>
    /\ tsp_tasks = <<>>
    /\ translated_files = <<>>

ParseOff ==
    /\ pe_pc = "off"
    /\ pe_response = <<>>
    /\ pe_num = 0
    /\ pe_called = <<>>
    /\ pe_episodes = <<>>
    /\ pe_result = <<>>

\* A model response before any was received.
NoResponse ==
    [json |-> "none", items |-> <<>>, sections |-> <<>>, sentinel |-> FALSE, long |-> FALSE]

ConsistencyOff ==
    /\ cc_pc = "off"
    /\ plot_options = <<>>
    /\ cc_response = NoResponse
    /\ cc_issues = <<>>
    /\ cc_accessed = {}

DialogueAgentOff ==
    /\ da_pc = "off"
    /\ da_input = <<>>
    /\ da_invocations = <<>>
    /\ da_result = ""

ReportOff ==
    /\ rp_pc = "off"
    /\ rp_issues = <<>>
    /\ rp_result = FALSE

SplitOff ==
    /\ sc_pc = "off"
    /\ sc_text = <<>>
    /\ sc_max = 0
    /\ sc_chunks = <<>>

HarnessOff ==
    /\ th_pc = "off"
    /\ th_results = <<>>
    /\ th_checked = <<>>
    /\ th_values = <<>>
    /\ th_saved = "nothing"

ImproveOff ==
    /\ gi_pc = "off"
    /\ gi_problems = <<>>
    /\ gi_response = <<>>
    /\ gi_result = <<>>

\* None of the parts below the wizard is running.
ExtraOff ==
    /\ LanguagesOff
    /\ ParseOff
    /\ ConsistencyOff
    /\ DialogueAgentOff
    /\ ReportOff
    /\ SplitOff
    /\ HarnessOff
    /\ ImproveOff

\* The Streamlit app not running.
WizardOff ==
    /\ ss = InitSession
    /\ finalized = FALSE
    /\ dg_pc = "off"
    /\ dg_tasks = <<>>
    /\ dg_lists = <<>>
    /\ dg_dialogues = EmptyDict

\* No refine_outline call yet.
NoRefineCall == [outline |-> <<>>, feedback |-> <<>>]

\* generate_story_pipeline not running.
PipelineOff ==
    /\ pipe_pc = "off"
    /\ stages = <<>>
    /\ outline = <<>>
    /\ characters = NoCharacters
    /\ answer = ""
    /\ refine_calls = [outline |-> 0, characters |-> 0]
    /\ model_failed = FALSE
    /\ arg_num_episodes = 0
    /\ selected_plots = 0
    /\ outline_feedback = <<>>
    /\ last_refine = NoRefineCall
    /\ refine_raised = FALSE

\* The fan-outs of generate_story_pipeline not entered.
FanoutOff ==
    /\ fo_pc = "off"
    /\ enh_tasks = <<>>
    /\ enhanced_episodes = EmptyDict
    /\ dlg_tasks = <<>>
    /\ dialogues = EmptyDict

\* ------------------------------------------- one call of translate_story
InitTranslate ==
    /\ ExtraOff
    /\ WizardOff
    /\ FanoutOff
    /\ PipelineOff
    /\ \E text \in Texts : calls = <<EnterTranslateStory(text)>>
    /\ episodes = <<>>
    /\ ep_tasks = <<>>
    /\ translated_episodes = EmptyDict
    /\ combined_file = <<>>
    /\ tep_pc = "off"

NextTranslate == ChunkActions

SpecTranslate == InitTranslate /\ [][NextTranslate]_vars

Returned(c) == calls[c].pc = "returned"

\* C1: a returned translate_story holds, in chunk order, exactly the result
\* each chunk's _translate_chunk call ended with: one per chunk, none
\* missing, duplicated or reordered, whatever the completion order was.
C1_JoinedInChunkOrder ==
    \A c \in CallIds :
        Returned(c) =>
            /\ Len(calls[c].translated_text) = Len(calls[c].chunks)
            /\ \A i \in DOMAIN calls[c].chunks :
                   calls[c].translated_text[i] = calls[c].fut[i].val

\* A call of three chunks whose futures were seen in the order 2, 0, 1 has returned.
C1_Witness ==
    \E c \in CallIds :
        /\ Returned(c)
        /\ Len(calls[c].chunks) = 3
        /\ calls[c].translated_chunks[1][1] = 2
        /\ calls[c].translated_chunks[2][1] = 0
        /\ \A i \in DOMAIN calls[c].fut : calls[c].fut[i].outcome = "ok"

\* C3: in a returned translate_story the chunks whose model call failed, and
\* only they, carry the error marker of _translate_chunk; every other
\* position holds that chunk's own translation.
C3_FailureStaysInItsChunk ==
    \A c \in CallIds :
        Returned(c) =>
            /\ Len(calls[c].translated_text) = Len(calls[c].chunks)
            /\ \A i \in DOMAIN calls[c].chunks :
                   IF calls[c].fut[i].outcome = "fail"
                   THEN calls[c].translated_text[i] = ChunkError
                   ELSE calls[c].translated_text[i] = Translated(calls[c].chunks[i])

\* Three chunks, the model call of the second failed, the call has returned.
C3_Witness ==
    \E c \in CallIds :
        /\ Returned(c)
        /\ Len(calls[c].chunks) = 3
        /\ calls[c].fut[2].outcome = "fail"
        /\ calls[c].fut[1].outcome = "ok"
        /\ calls[c].fut[3].outcome = "ok"

\* ------------------------------------- translate_episodes_parallel (main.py)
NumberList(eps) == [k \in DOMAIN eps |-> eps[k].number]

\* One episode list for each sequence of episode numbers the split stage can
\* return: translate_episode reads of an episode its number and its text.
TepEpisodeLists ==
    {CHOOSE e \in SplitResults : NumberList(e) = ns :
        ns \in {NumberList(e) : e \in SplitResults}}

QueuedTask(text) == [st |-> "queued", text |-> text, kind |-> "none",
                     translated_content |-> <<>>, collected |-> FALSE]

\* max_workers = min(10, len(episodes))
MaxWorkers(eps) == Min(EpisodePoolCap, Len(eps))

NumTranslating == Cardinality({e \in DOMAIN ep_tasks : ep_tasks[e].st = "translating"})

\* The model invocations in flight: the chunks inside translator.invoke.
RECURSIVE SumRunning(_)
SumRunning(cs) ==
    IF cs = {} THEN 0
    ELSE LET c == CHOOSE x \in cs : TRUE IN NumRunning(c) + SumRunning(cs \ {c})

InFlight == SumRunning(CallIds)

\* A pool worker takes the next task: translate_episode builds the episode's
\* text and calls translator.translate_story on it.
E_Start(e) ==
    /\ tep_pc = "pool"
    /\ e \in DOMAIN ep_tasks
    /\ ep_tasks[e].st = "queued"
    /\ \A j \in 1..(e - 1) : ep_tasks[j].st # "queued"
    /\ NumTranslating < MaxWorkers(episodes)
    /\ ep_tasks' = [ep_tasks EXCEPT ![e].st = "translating"]
    /\ calls' = [calls EXCEPT ![e] = EnterTranslateStory(ep_tasks[e].text)]
    /\ UNCHANGED <<episodes, translated_episodes, combined_file, tep_pc, notTr>>

\* translate_story has returned: the episode's file is written (which may
\* fail) and translate_episode returns the result or the error record.
E_Finish(e, wr) ==
    /\ tep_pc = "pool"
    /\ e \in DOMAIN ep_tasks
    /\ ep_tasks[e].st = "translating"
    /\ calls[e].pc = "returned"
    /\ ep_tasks' = [ep_tasks EXCEPT
                      ![e].st = "done",
                      ![e].kind = IF wr = "ok" THEN "ok" ELSE "error",
                      ![e].translated_content =
                          IF wr = "ok" THEN calls[e].translated_text ELSE <<>>]
    /\ UNCHANGED <<calls, episodes, translated_episodes, combined_file, tep_pc, notTr>>

\* One iteration of the as_completed loop of translate_episodes_parallel.
E_Collect(e) ==
    /\ tep_pc = "pool"
    /\ e \in DOMAIN ep_tasks
    /\ ep_tasks[e].st = "done"
    /\ ~ep_tasks[e].collected
    /\ ep_tasks' = [ep_tasks EXCEPT ![e].collected = TRUE]
    /\ translated_episodes' =
           DictPut(translated_episodes, episodes[e].number,
                   [kind |-> ep_tasks[e].kind,
                    translated_content |-> ep_tasks[e].translated_content])
    /\ UNCHANGED <<calls, episodes, combined_file, tep_pc, notTr>>

\* The translation the combined file gets for an episode number.
CombinedEntry(number) ==
    IF number \in DOMAIN translated_episodes /\ translated_episodes[number].kind = "ok"
    THEN <<translated_episodes[number].translated_content>>
    ELSE <<>>

RECURSIVE CombineLoop(_, _, _)
CombineLoop(eps, k, acc) ==
    IF k > Len(eps) THEN acc
    ELSE CombineLoop(eps, k + 1, acc \o CombinedEntry(eps[k].number))

\* After the pool: the combined file, the episodes in number order.
E_Combine ==
    /\ tep_pc = "pool"
    /\ \A e \in DOMAIN ep_tasks : ep_tasks[e].collected
    /\ combined_file' = CombineLoop(SortByNumber(episodes), 1, <<>>)
    /\ tep_pc' = "done"
    /\ UNCHANGED <<calls, episodes, ep_tasks, translated_episodes, notTr>>

InitEpisodes ==
    /\ ExtraOff
    /\ WizardOff
    /\ FanoutOff
    /\ PipelineOff
    /\ episodes \in TepEpisodeLists
    /\ ep_tasks \in [DOMAIN episodes -> {QueuedTask(t) : t \in EpisodeTexts}]
    /\ calls = [e \in DOMAIN episodes |-> IdleCall]
    /\ translated_episodes = EmptyDict
    /\ combined_file = <<>>
    /\ tep_pc = "pool"

NextEpisodes ==
    \/ ChunkActions
    \/ \E e \in DOMAIN ep_tasks : E_Start(e)
    \/ \E e \in DOMAIN ep_tasks : \E wr \in {"ok", "fail"} : E_Finish(e, wr)
    \/ \E e \in DOMAIN ep_tasks : E_Collect(e)
    \/ E_Combine

SpecEpisodes == InitEpisodes /\ [][NextEpisodes]_vars

\* C4 (as claimed): while translate_episodes_parallel runs, the model
\* invocations in flight never exceed the cap min(10, N) of its pool.
C4_InFlightWithinCap ==
    tep_pc = "pool" => InFlight <= MaxWorkers(episodes)

\* --------------------- the fan-outs of generate_story_pipeline (main.py)
\* title.replace(' ', '_'), on the titles of the model.
ReplaceSpaces(t) == IF t.s = "Episode " THEN [t EXCEPT !.s = "Episode_"] ELSE t

\* The path enhance_episode saves to, and the one generate_episode_dialogue writes.
EnhancePath(ep) == <<"episodes", ep.number, ReplaceSpaces(ep.title)>>
DialoguePath(ep) == <<"dialogue", ep.number, EmptyTxt>>

\* The LengthenedEpisode lengthen_episode returns for the context at position i.
Enhanced(i) == [kind |-> "enhanced", of |-> i]
NoValue == [kind |-> "none", of |-> 0]
\* The storyline of a dialogue call: the lengthened content, or episode.content.
OriginalContent(i) == [kind |-> "original", of |-> i]

FreshTask == [st |-> "queued", raised |-> FALSE, val |-> NoValue,
              storyline |-> NoValue, collected |-> FALSE]

NumBusy(tasks) ==
    Cardinality({i \in DOMAIN tasks : tasks[i].st \in {"calling", "writing"}})

Writing(tasks) == {i \in DOMAIN tasks : tasks[i].st = "writing"}

\* A pool worker takes the next context and enters lengthen_episode.
FO_EnhStart(i) ==
    /\ fo_pc = "enhance"
    /\ i \in DOMAIN enh_tasks
    /\ enh_tasks[i].st = "queued"
    /\ \A j \in 1..(i - 1) : enh_tasks[j].st # "queued"
    /\ NumBusy(enh_tasks) < MaxWorkers(episodes)
    /\ enh_tasks' = [enh_tasks EXCEPT ![i].st = "calling"]
    /\ UNCHANGED <<episodes, fo_pc, enhanced_episodes, dlg_tasks, dialogues, notFo>>

\* lengthen_episode ends: it returns the episode, and save_episode_to_file
\* opens the output file; or it re-raises the model call's exception.
FO_EnhCallEnd(i, outcome) ==
    /\ fo_pc = "enhance"
    /\ i \in DOMAIN enh_tasks
    /\ enh_tasks[i].st = "calling"
    /\ enh_tasks' = [enh_tasks EXCEPT ![i] =
           IF outcome = "ok"
           THEN [@ EXCEPT !.st = "writing", !.val = Enhanced(i)]
           ELSE [@ EXCEPT !.st = "done", !.raised = TRUE]]
    /\ UNCHANGED <<episodes, fo_pc, enhanced_episodes, dlg_tasks, dialogues, notFo>>

\* save_episode_to_file ends: the file is closed and enhance_episode
\* returns (episode.number, enhanced); or the write raised.
FO_EnhWriteEnd(i, wr) ==
    /\ fo_pc = "enhance"
    /\ i \in DOMAIN enh_tasks
    /\ enh_tasks[i].st = "writing"
    /\ enh_tasks' = [enh_tasks EXCEPT ![i] =
           IF wr = "ok"
           THEN [@ EXCEPT !.st = "done"]
           ELSE [@ EXCEPT !.st = "done", !.raised = TRUE, !.val = NoValue]]
    /\ UNCHANGED <<episodes, fo_pc, enhanced_episodes, dlg_tasks, dialogues, notFo>>

\* What one iteration of the as_completed loop of lines 485-491 leaves in
\* enhanced_episodes: the result under its episode number; for a future
\* that raised, a message is printed and nothing is stored.
EnhCollected(d, number, task) ==
    IF task.raised THEN d ELSE DictPut(d, number, task.val)

FO_EnhCollect(i) ==
    /\ fo_pc = "enhance"
    /\ i \in DOMAIN enh_tasks
    /\ enh_tasks[i].st = "done"
    /\ ~enh_tasks[i].collected
    /\ enh_tasks' = [enh_tasks EXCEPT ![i].collected = TRUE]
    /\ enhanced_episodes' = EnhCollected(enhanced_episodes, episodes[i].number, enh_tasks[i])
    /\ UNCHANGED <<episodes, fo_pc, dlg_tasks, dialogues, notFo>>

\* The enhancement pool has shut down; the dialogue tasks are submitted.
FO_SubmitDialogues ==
    /\ fo_pc = "enhance"
    /\ \A i \in DOMAIN enh_tasks : enh_tasks[i].collected
    /\ fo_pc' = "dialogue"
    /\ dlg_tasks' = [i \in DOMAIN episodes |-> FreshTask]
    /\ UNCHANGED <<episodes, enh_tasks, enhanced_episodes, dialogues, notFo>>

\* Lines 501-505: the enhanced content if the dict has the episode's number.
Storyline(i) ==
    IF episodes[i].number \in DOMAIN enhanced_episodes
    THEN enhanced_episodes[episodes[i].number]
    ELSE OriginalContent(i)

\* A pool worker takes the next episode, picks its storyline and enters
\* dialogue_agent.generate_dialogue.
FO_DlgStart(i) ==
    /\ fo_pc = "dialogue"
    /\ i \in DOMAIN dlg_tasks
    /\ dlg_tasks[i].st = "queued"
    /\ \A j \in 1..(i - 1) : dlg_tasks[j].st # "queued"
    /\ NumBusy(dlg_tasks) < MaxWorkers(episodes)
    /\ dlg_tasks' = [dlg_tasks EXCEPT ![i].st = "calling", ![i].storyline = Storyline(i)]
    /\ UNCHANGED <<episodes, fo_pc, enh_tasks, enhanced_episodes, dialogues, notFo>>

\* generate_dialogue ends: it returns a dialogue and the dialogue file is
\* opened; or its fallback call raised.
FO_DlgCallEnd(i, outcome) ==
    /\ fo_pc = "dialogue"
    /\ i \in DOMAIN dlg_tasks
    /\ dlg_tasks[i].st = "calling"
    /\ dlg_tasks' = [dlg_tasks EXCEPT ![i] =
           IF outcome = "ok"
           THEN [@ EXCEPT !.st = "writing", !.val = [kind |-> "dialogue", of |-> i]]
           ELSE [@ EXCEPT !.st = "done", !.raised = TRUE]]
    /\ UNCHANGED <<episodes, fo_pc, enh_tasks, enhanced_episodes, dialogues, notFo>>

\* The dialogue file is written and closed; or the write raised.
FO_DlgWriteEnd(i, wr) ==
    /\ fo_pc = "dialogue"
    /\ i \in DOMAIN dlg_tasks
    /\ dlg_tasks[i].st = "writing"
    /\ dlg_tasks' = [dlg_tasks EXCEPT ![i] =
           IF wr = "ok"
           THEN [@ EXCEPT !.st = "done"]
           ELSE [@ EXCEPT !.st = "done", !.raised = TRUE, !.val = NoValue]]
    /\ UNCHANGED <<episodes, fo_pc, enh_tasks, enhanced_episodes, dialogues, notFo>>

\* One iteration of the as_completed loop of lines 528-534.
FO_DlgCollect(i) ==
    /\ fo_pc = "dialogue"
    /\ i \in DOMAIN dlg_tasks
    /\ dlg_tasks[i].st = "done"
    /\ ~dlg_tasks[i].collected
    /\ dlg_tasks' = [dlg_tasks EXCEPT ![i].collected = TRUE]
    /\ dialogues' = IF dlg_tasks[i].raised THEN dialogues
                    ELSE DictPut(dialogues, episodes[i].number, dlg_tasks[i].val)
    /\ UNCHANGED <<episodes, fo_pc, enh_tasks, enhanced_episodes, notFo>>

\* The dialogue pool has shut down.
FO_Done ==
    /\ fo_pc = "dialogue"
    /\ \A i \in DOMAIN dlg_tasks : dlg_tasks[i].collected
    /\ fo_pc' = "done"
    /\ UNCHANGED <<episodes, enh_tasks, enhanced_episodes, dlg_tasks, dialogues, notFo>>

TranslateOff ==
    /\ calls = <<>>
    /\ ep_tasks = <<>>
    /\ translated_episodes = EmptyDict
    /\ combined_file = <<>>
    /\ tep_pc = "off"

\* The state at line 478 of main.py, for an episode list split_story returns.
InitFanout ==
    /\ ExtraOff
    /\ WizardOff
    /\ TranslateOff
    /\ PipelineOff
    /\ episodes \in SplitResults
    /\ fo_pc = "enhance"
    /\ enh_tasks = [i \in DOMAIN episodes |-> FreshTask]
    /\ enhanced_episodes = EmptyDict
    /\ dlg_tasks = <<>>
    /\ dialogues = EmptyDict

Outcomes == {"ok", "fail"}

NextFanout ==
    \/ \E i \in DOMAIN enh_tasks : FO_EnhStart(i)
    \/ \E i \in DOMAIN enh_tasks : \E outcome \in Outcomes : FO_EnhCallEnd(i, outcome)
    \/ \E i \in DOMAIN enh_tasks : \E wr \in Outcomes : FO_EnhWriteEnd(i, wr)
    \/ \E i \in DOMAIN enh_tasks : FO_EnhCollect(i)
    \/ FO_SubmitDialogues
    \/ \E i \in DOMAIN dlg_tasks : FO_DlgStart(i)
    \/ \E i \in DOMAIN dlg_tasks : \E outcome \in Outcomes : FO_DlgCallEnd(i, outcome)
    \/ \E i \in DOMAIN dlg_tasks : \E wr \in Outcomes : FO_DlgWriteEnd(i, wr)
    \/ \E i \in DOMAIN dlg_tasks : FO_DlgCollect(i)
    \/ FO_Done

SpecFanout == InitFanout /\ [][NextFanout]_vars

PipelineEpisodeCounts == {1, 5, 8}

\* What the operator may type at the satisfaction prompt.
AnswerInputs == {"yes", "y", " Yes", "NO", "n", "maybe", ""}

\* What the operator may type at the feedback prompt.
FeedbackTexts == {"darker", "shorter"}

\* str.strip() on the inputs above.
Strip(raw) == IF raw = " Yes" THEN "Yes" ELSE raw

\* str.lower() on the stripped inputs.
Lower(str) ==
    CASE str = "Yes" -> "yes"
      [] str = "NO" -> "no"
      [] OTHER -> str

\* input(...).strip().lower()
Satisfaction(raw) == Lower(Strip(raw))

IsYes(satisfaction) == satisfaction \in {"y", "yes"}

\* A loop that takes every answer but an acceptance for a 'no'.
IsNoLoose(satisfaction) == ~(satisfaction \in {"y", "yes"})

IsNo(satisfaction) == satisfaction \in {"n", "no"}

\* refine_outline(topic, outline, feedback) with every feedback text typed so
\* far, the one of this round last, passed as the feedback.
OutlineRefineCallAccumulated(current, earlier, feedback) ==
    [outline |-> current, feedback |-> Append(earlier, feedback)]

\* The call refine_outline(topic, outline, feedback) of the loop: the current
\* outline and the feedback text just typed (earlier: the texts of the
\* rounds before, which the loop does not keep).
OutlineRefineCall(current, earlier, feedback) ==
    [outline |-> current, feedback |-> <<feedback>>]

\* The outline refine_outline returns for this outline and this feedback.
RefineOutline(previous, feedback) == Append(previous, feedback)

\* The three default characters generate_characters falls back to.
DefaultCharacters == [base |-> "default", feedback |-> <<>>]

GeneratedCharacters == [base |-> "generated", feedback |-> <<>>]

\* refine_characters falling back, like generate_characters, to the three
\* default characters when the call raises.
RefineCharactersDefault(previous, feedback, outcome) ==
    IF outcome = "ok"
    THEN [previous EXCEPT !.feedback = Append(@, feedback)]
    ELSE DefaultCharacters

\* refine_characters: the refined list, or the previous one when the call raises.
RefineCharacters(previous, feedback, outcome) ==
    IF outcome = "ok"
    THEN [previous EXCEPT !.feedback = Append(@, feedback)]
    ELSE previous

\* num_plots = min(max(3, num_episodes - 2), 5)
NumPlots(n) == Min(IF n - 2 > 3 THEN n - 2 ELSE 3, 5)

\* How many plot options generate_plot_options may return.
PlotOptionCounts == {2, 6}

\* The parameters of StorySplitterAgent.split_story after self.
SplitStoryParams == <<"detailed_plot", "characters", "num_episodes">>

\* The call of split_story in generate_story_pipeline: three positional
\* arguments and the keyword num_episodes.
PipelineSplitCall == [positional |-> 3, keywords |-> {"num_episodes"}]

\* Whether Python can bind a call to the parameters: no more positional
\* arguments than parameters, and every keyword names a parameter that no
\* positional argument has filled. Otherwise the call raises TypeError.
Binds(params, call) ==
    /\ call.positional <= Len(params)
    /\ \A k \in call.keywords :
          \E i \in DOMAIN params : params[i] = k /\ i > call.positional

\* An exception leaves generate_story_pipeline; main() prints it.
Abort ==
    pipe_pc' = "aborted"

\* outline = outline_generator.generate_outline(topic)
P_GenerateOutline(outcome) ==
    /\ pipe_pc = "outline"
    /\ stages' = Append(stages, "Outline")
    /\ IF outcome = "ok"
       THEN /\ outline' = <<>>
            /\ pipe_pc' = "outline_feedback"
            /\ UNCHANGED model_failed
       ELSE /\ Abort
            /\ model_failed' = TRUE
            /\ UNCHANGED outline
    /\ UNCHANGED <<characters, answer, refine_calls, arg_num_episodes, selected_plots>>
    /\ UNCHANGED <<outline_feedback, last_refine, refine_raised>>
    /\ UNCHANGED <<episodes, notPi>>

\* One turn of the loop of handle_outline_feedback.
P_OutlineAnswer(raw, feedback, outcome) ==
    /\ pipe_pc = "outline_feedback"
    /\ answer' = raw
    /\ IF IsYes(Satisfaction(raw))
       THEN /\ pipe_pc' = "characters"
            /\ UNCHANGED <<outline, refine_calls, model_failed, outline_feedback, last_refine>>
       ELSE IF IsNo(Satisfaction(raw))
       THEN /\ refine_calls.outline < MaxRounds
            /\ refine_calls' = [refine_calls EXCEPT !.outline = @ + 1]
            /\ outline_feedback' = Append(outline_feedback, feedback)
            /\ last_refine' = OutlineRefineCall(outline, outline_feedback, feedback)
            /\ IF outcome = "ok"
               THEN /\ outline' = RefineOutline(outline, feedback)
                    /\ UNCHANGED <<pipe_pc, model_failed>>
               ELSE /\ Abort
                    /\ model_failed' = TRUE
                    /\ UNCHANGED outline
       ELSE UNCHANGED <<pipe_pc, outline, refine_calls, model_failed, outline_feedback,
                        last_refine>>
    /\ UNCHANGED <<stages, characters, arg_num_episodes, selected_plots, refine_raised>>
    /\ UNCHANGED <<episodes, notPi>>

\* characters = character_agent.generate_characters(outline_text)
P_GenerateCharacters(outcome) ==
    /\ pipe_pc = "characters"
    /\ stages' = Append(stages, "Characters")
    /\ characters' = IF outcome = "ok" THEN GeneratedCharacters ELSE DefaultCharacters
    /\ model_failed' = (model_failed \/ outcome = "fail")
    /\ pipe_pc' = "characters_feedback"
    /\ UNCHANGED <<outline, answer, refine_calls, arg_num_episodes, selected_plots>>
    /\ UNCHANGED <<outline_feedback, last_refine, refine_raised>>
    /\ UNCHANGED <<episodes, notPi>>

\* One turn of the loop of handle_character_feedback.
P_CharactersAnswer(raw, feedback, outcome) ==
    /\ pipe_pc = "characters_feedback"
    /\ answer' = raw
    /\ IF IsYes(Satisfaction(raw))
       THEN /\ pipe_pc' = "plot"
            /\ UNCHANGED <<characters, refine_calls, model_failed, refine_raised>>
       ELSE IF IsNo(Satisfaction(raw))
       THEN /\ refine_calls.characters < MaxRounds
            /\ refine_calls' = [refine_calls EXCEPT !.characters = @ + 1]
            /\ characters' = RefineCharacters(characters, feedback, outcome)
            /\ model_failed' = (model_failed \/ outcome = "fail")
            /\ refine_raised' = (outcome = "fail")
            /\ UNCHANGED pipe_pc
       ELSE UNCHANGED <<pipe_pc, characters, refine_calls, model_failed, refine_raised>>
    /\ UNCHANGED <<stages, outline, arg_num_episodes, selected_plots>>
    /\ UNCHANGED <<outline_feedback, last_refine>>
    /\ UNCHANGED <<episodes, notPi>>

\* plot_options = generate_plot_options(...); selected_plots = plot_options[:num_plots]
P_SelectPlots(options, outcome) ==
    /\ pipe_pc = "plot"
    /\ stages' = Append(stages, "Plot")
    /\ selected_plots' = Min(options, NumPlots(arg_num_episodes))
    /\ model_failed' = (model_failed \/ outcome = "fail")
    /\ pipe_pc' = "split"
    /\ UNCHANGED <<outline, characters, answer, refine_calls, arg_num_episodes>>
    /\ UNCHANGED <<outline_feedback, last_refine, refine_raised>>
    /\ UNCHANGED <<episodes, notPi>>

\* episodes = splitter.split_story(outline_text, selected_plots, characters,
\*                                 num_episodes=num_episodes)
P_Split ==
    /\ pipe_pc = "split"
    /\ stages' = Append(stages, "Split")
    /\ IF Binds(SplitStoryParams, PipelineSplitCall)
       THEN pipe_pc' = "enhance"
       ELSE Abort
    /\ UNCHANGED <<outline, characters, answer, refine_calls, model_failed,
                   arg_num_episodes, selected_plots, outline_feedback, last_refine>>
    /\ UNCHANGED <<outline_feedback, last_refine, refine_raised>>
    /\ UNCHANGED <<episodes, notPi>>

InitPipeline ==
    /\ ExtraOff
    /\ WizardOff
    /\ TranslateOff
    /\ FanoutOff
    /\ episodes = <<>>
    /\ pipe_pc = "outline"
    /\ stages = <<>>
    /\ outline = <<>>
    /\ characters = NoCharacters
    /\ answer = ""
    /\ refine_calls = [outline |-> 0, characters |-> 0]
    /\ model_failed = FALSE
    /\ arg_num_episodes \in PipelineEpisodeCounts
    /\ selected_plots = 0
    /\ outline_feedback = <<>>
    /\ last_refine = NoRefineCall
    /\ refine_raised = FALSE

NextPipeline ==
    \/ \E outcome \in Outcomes : P_GenerateOutline(outcome)
    \/ \E raw \in AnswerInputs, feedback \in FeedbackTexts, outcome \in Outcomes :
          P_OutlineAnswer(raw, feedback, outcome)
    \/ \E outcome \in Outcomes : P_GenerateCharacters(outcome)
    \/ \E raw \in AnswerInputs, feedback \in FeedbackTexts, outcome \in Outcomes :
          P_CharactersAnswer(raw, feedback, outcome)
    \/ \E options \in PlotOptionCounts, outcome \in Outcomes : P_SelectPlots(options, outcome)
    \/ P_Split

SpecPipeline == InitPipeline /\ [][NextPipeline]_vars

\* ---------------------------------------------------------------------------
\* The Streamlit wizard (streamlit_app.py): one action per script run that a
\* button starts, st.session_state as the record ss, and the worker threads
\* of generate_dialogue step by step.
\* ---------------------------------------------------------------------------

\* min_value of the "Number of Episodes" slider.
SliderMin == 2

WizardEpisodeCounts == SliderMin..MaxNumEpisodes

\* The selections of the languages multiselect tried.
WizardLanguages == {{}, {"Hindi"}}

\* What the operator may leave in a feedback text area.
WizardFeedback == {"", "darker"}

\* The call of split_story in split_into_episodes: two positional arguments
\* and the keyword num_episodes.
WizardSplitCall == [positional |-> 2, keywords |-> {"num_episodes"}]

\* No script run of the app is in a fan-out.
Idle == dg_pc = "off"

\* Step 0, "Generate Story": the form values are stored, then generate_outline.
W_Submit(languages, n, outcome) ==
    /\ Idle
    /\ ss.current_step = 0
    /\ ss' = [ss EXCEPT !.target_languages = languages,
                        !.num_episodes = n,
                        !.current_step = IF outcome = "ok" THEN 1 ELSE 0]
    /\ UNCHANGED <<finalized, dg_pc, dg_tasks, dg_lists, dg_dialogues>>
    /\ UNCHANGED <<episodes, notWz>>

\* Step 1, "Accept Outline": develop_plot.  PlotSelectorAgent is not among the
\* sources: its call returns a plot or raises.
W_AcceptOutline(outcome) ==
    /\ Idle
    /\ ss.current_step = 1
    /\ ss' = IF outcome = "ok"
             THEN [ss EXCEPT !.plot = "plot", !.current_step = 2]
             ELSE ss
    /\ UNCHANGED <<finalized, dg_pc, dg_tasks, dg_lists, dg_dialogues>>
    /\ UNCHANGED <<episodes, notWz>>

\* Step 1, "Refine Outline".
W_RefineOutline ==
    /\ Idle
    /\ ss.current_step = 1
    /\ ss' = [ss EXCEPT !.show_outline_feedback = TRUE]
    /\ UNCHANGED <<finalized, dg_pc, dg_tasks, dg_lists, dg_dialogues>>
    /\ UNCHANGED <<episodes, notWz>>

\* Step 1, "Submit Feedback": handle_outline_feedback when the text is not empty.
W_SubmitOutlineFeedback(feedback, outcome) ==
    /\ Idle
    /\ ss.current_step = 1
    /\ ss.show_outline_feedback
    /\ Len(ss.outline) < MaxWizardRounds
    /\ ss' = IF feedback # "" /\ outcome = "ok"
             THEN [ss EXCEPT !.outline = RefineOutline(@, feedback),
                             !.show_outline_feedback = FALSE]
             ELSE ss
    /\ UNCHANGED <<finalized, dg_pc, dg_tasks, dg_lists, dg_dialogues>>
    /\ UNCHANGED <<episodes, notWz>>

\* Step 2, "Continue to Character Creation": create_characters.
W_ContinueToCharacters(outcome) ==
    /\ Idle
    /\ ss.current_step = 2
    /\ ss' = [ss EXCEPT !.characters = IF outcome = "ok" THEN GeneratedCharacters
                                                           ELSE DefaultCharacters,
                        !.current_step = 3]
    /\ UNCHANGED <<finalized, dg_pc, dg_tasks, dg_lists, dg_dialogues>>
    /\ UNCHANGED <<episodes, notWz>>

\* Step 3, "Accept Characters": split_into_episodes.  When the model call of
\* split_story raises, the script run ends with the state as it was.
W_AcceptCharacters(outcome, response) ==
    /\ Idle
    /\ ss.current_step = 3
    /\ IF Binds(SplitStoryParams, WizardSplitCall) /\ outcome = "ok"
       THEN /\ episodes' = ParseEpisodes(response, ss.num_episodes)
            /\ ss' = [ss EXCEPT !.current_step = 4]
       ELSE UNCHANGED <<episodes, ss>>
    /\ UNCHANGED <<finalized, dg_pc, dg_tasks, dg_lists, dg_dialogues>>
    /\ UNCHANGED notWz

\* Step 3, "Refine Characters".
W_RefineCharacters ==
    /\ Idle
    /\ ss.current_step = 3
    /\ ss' = [ss EXCEPT !.show_character_feedback = TRUE]
    /\ UNCHANGED <<finalized, dg_pc, dg_tasks, dg_lists, dg_dialogues>>
    /\ UNCHANGED <<episodes, notWz>>

\* Step 3, "Submit Feedback": handle_character_feedback when the text is not empty.
W_SubmitCharacterFeedback(feedback, outcome) ==
    /\ Idle
    /\ ss.current_step = 3
    /\ ss.show_character_feedback
    /\ Len(ss.characters.feedback) < MaxWizardRounds
    /\ ss' = IF feedback # ""
             THEN [ss EXCEPT !.characters = RefineCharacters(@, feedback, outcome),
                             !.show_character_feedback = FALSE]
             ELSE ss
    /\ UNCHANGED <<finalized, dg_pc, dg_tasks, dg_lists, dg_dialogues>>
    /\ UNCHANGED <<episodes, notWz>>

\* The dicts the collecting loop of enhance_episodes can end with when the
\* workers of the episodes in failing raise: one entry per number of the
\* other episodes, the one collected last for that number.
EnhancedDicts(eps, failing) ==
    LET ok == (DOMAIN eps) \ failing
        numbers == {eps[i].number : i \in ok}
    IN {[n \in numbers |-> Enhanced(last[n])] :
           last \in {g \in [numbers -> ok] : \A n \in numbers : eps[g[n]].number = n}}

\* Step 4, "Enhance Episodes": enhance_episodes.
W_Enhance(failing, enhanced) ==
    /\ Idle
    /\ ss.current_step = 4
    /\ failing \subseteq DOMAIN episodes
    /\ enhanced \in EnhancedDicts(episodes, failing)
    /\ ss' = [ss EXCEPT !.enhanced_episodes = enhanced, !.current_step = 5]
    /\ UNCHANGED <<finalized, dg_pc, dg_tasks, dg_lists, dg_dialogues>>
    /\ UNCHANGED <<episodes, notWz>>

\* What a worker of generate_dialogue returns for the episode at position i:
\* the dialogue, the marker for a too short dialogue, the marker for an
\* exception.
Dialogue(i) == [kind |-> "dialogue", of |-> i]
DialogueFailed(i) == [kind |-> "generation_failed", of |-> i]
DialogueError(i) == [kind |-> "error", of |-> i]

\* The record a worker appends to error_log for the exception of task i.
ErrorRecord(i) == [episode |-> episodes[i].number, error |-> i]

\* The content of episode_data for the episode at position i.
EpisodeContent(i) ==
    IF episodes[i].number \in DOMAIN ss.enhanced_episodes
    THEN ss.enhanced_episodes[episodes[i].number]
    ELSE OriginalContent(i)

\* What dialogue_agent.generate_dialogue can do in a worker.
DialogueOutcomes == {"ok", "empty", "fail"}

\* max_workers = min(len(episode_data), 10)
DialogueWorkers == Min(Len(episodes), EpisodePoolCap)

DgBusy == Cardinality({i \in DOMAIN dg_tasks : dg_tasks[i].st \notin {"queued", "done"}})

\* Step 5, "Generate Dialogue": generate_dialogue up to the submission of the
\* tasks to the pool.
D_Begin ==
    /\ Idle
    /\ ss.current_step = 5
    /\ dg_pc' = "pool"
    /\ dg_tasks' = [i \in DOMAIN episodes |->
                      [st |-> "queued", content |-> EpisodeContent(i), outcome |-> "none",
                       val |-> NoValue, wrote |-> FALSE, log |-> 0, collected |-> FALSE]]
    /\ dg_dialogues' = EmptyDict
    /\ UNCHANGED <<ss, finalized, dg_lists>>
    /\ UNCHANGED <<episodes, notWz>>

\* A pool worker takes the next task and enters generate_episode_dialogue.
D_Start(i) ==
    /\ dg_pc = "pool"
    /\ i \in DOMAIN dg_tasks
    /\ dg_tasks[i].st = "queued"
    /\ \A j \in 1..(i - 1) : dg_tasks[j].st # "queued"
    /\ DgBusy < DialogueWorkers
    /\ dg_tasks' = [dg_tasks EXCEPT ![i].st = "calling"]
    /\ UNCHANGED <<ss, finalized, dg_pc, dg_lists, dg_dialogues>>
    /\ UNCHANGED <<episodes, notWz>>

\* The call of dialogue_agent.generate_dialogue ends.  A dialogue is written
\* to its file when story_dir is set and returned; a too short one gives the
\* failure marker; an exception takes the worker to its except clause.
D_CallEnd(i, outcome) ==
    /\ dg_pc = "pool"
    /\ i \in DOMAIN dg_tasks
    /\ dg_tasks[i].st = "calling"
    /\ dg_tasks' = [dg_tasks EXCEPT
          ![i] = CASE outcome = "ok" ->
                        [@ EXCEPT !.st = "done", !.outcome = "ok", !.val = Dialogue(i),
                                  !.wrote = (ss.story_dir # "none")]
                   [] outcome = "empty" ->
                        [@ EXCEPT !.st = "done", !.outcome = "empty",
                                  !.val = DialogueFailed(i)]
                   [] OTHER ->
                        [@ EXCEPT !.st = "check", !.outcome = "fail"]]
    /\ UNCHANGED <<ss, finalized, dg_pc, dg_lists, dg_dialogues>>
    /\ UNCHANGED <<episodes, notWz>>

\* if 'error_log' not in st.session_state:
D_CheckLog(i) ==
    /\ dg_pc = "pool"
    /\ i \in DOMAIN dg_tasks
    /\ dg_tasks[i].st = "check"
    /\ dg_tasks' = [dg_tasks EXCEPT ![i].st = IF ss.error_log = 0 THEN "create" ELSE "load"]
    /\ UNCHANGED <<ss, finalized, dg_pc, dg_lists, dg_dialogues>>
    /\ UNCHANGED <<episodes, notWz>>

\* st.session_state.error_log = []
D_CreateLog(i) ==
    /\ dg_pc = "pool"
    /\ i \in DOMAIN dg_tasks
    /\ dg_tasks[i].st = "create"
    /\ dg_lists' = Append(dg_lists, <<>>)
    /\ ss' = [ss EXCEPT !.error_log = Len(dg_lists) + 1]
    /\ dg_tasks' = [dg_tasks EXCEPT ![i].st = "load"]
    /\ UNCHANGED <<finalized, dg_pc, dg_dialogues>>
    /\ UNCHANGED <<episodes, notWz>>

\* st.session_state.error_log is read for the append.
D_LoadLog(i) ==
    /\ dg_pc = "pool"
    /\ i \in DOMAIN dg_tasks
    /\ dg_tasks[i].st = "load"
    /\ dg_tasks' = [dg_tasks EXCEPT ![i].st = "append", ![i].log = ss.error_log]
    /\ UNCHANGED <<ss, finalized, dg_pc, dg_lists, dg_dialogues>>
    /\ UNCHANGED <<episodes, notWz>>

\* .append({...}) on the list read, and the return of the error marker.
D_AppendLog(i) ==
    /\ dg_pc = "pool"
    /\ i \in DOMAIN dg_tasks
    /\ dg_tasks[i].st = "append"
    /\ dg_lists' = [dg_lists EXCEPT ![dg_tasks[i].log] = Append(@, ErrorRecord(i))]
    /\ dg_tasks' = [dg_tasks EXCEPT ![i].st = "done", ![i].val = DialogueError(i)]
    /\ UNCHANGED <<ss, finalized, dg_pc, dg_dialogues>>
    /\ UNCHANGED <<episodes, notWz>>

\* as_completed yields a finished future: dialogues[episode_number] = dialogue.
D_Collect(i) ==
    /\ dg_pc = "pool"
    /\ i \in DOMAIN dg_tasks
    /\ dg_tasks[i].st = "done"
    /\ ~dg_tasks[i].collected
    /\ dg_tasks' = [dg_tasks EXCEPT ![i].collected = TRUE]
    /\ dg_dialogues' = DictPut(dg_dialogues, episodes[i].number, dg_tasks[i].val)
    /\ UNCHANGED <<ss, finalized, dg_pc, dg_lists>>
    /\ UNCHANGED <<episodes, notWz>>

\* The pool has shut down: st.session_state.dialogues = dialogues, step 6.
D_Return ==
    /\ dg_pc = "pool"
    /\ \A i \in DOMAIN dg_tasks : dg_tasks[i].collected
    /\ ss' = [ss EXCEPT !.dialogues = dg_dialogues, !.current_step = 6]
    /\ dg_pc' = "off"
    /\ UNCHANGED <<finalized, dg_tasks, dg_lists, dg_dialogues>>
    /\ UNCHANGED <<episodes, notWz>>

\* The list st.session_state.error_log refers to; empty while the key is absent.
SessionErrorLog == IF ss.error_log = 0 THEN <<>> ELSE dg_lists[ss.error_log]

\* "Proceed to Translation" going to the final step whatever was selected.
W_ProceedToTranslationSkipping ==
    /\ Idle
    /\ ss.current_step = 6
    /\ ss' = [ss EXCEPT !.current_step = 8]
    /\ UNCHANGED <<finalized, dg_pc, dg_tasks, dg_lists, dg_dialogues>>
    /\ UNCHANGED <<episodes, notWz>>

\* Step 6, "Proceed to Translation".
W_ProceedToTranslation ==
    /\ Idle
    /\ ss.current_step = 6
    /\ ss' = [ss EXCEPT !.current_step = IF ss.target_languages # {} THEN 7 ELSE 8]
    /\ UNCHANGED <<finalized, dg_pc, dg_tasks, dg_lists, dg_dialogues>>
    /\ UNCHANGED <<episodes, notWz>>

\* What finalize_story can do: run to its end; fail before it sets
\* st.session_state.story_dir; fail after it has set it.
FinalizeOutcomes == {"ok", "fails_early", "fails_late"}

\* The script run of step 7: finalize_story when story_dir is not set, with
\* st.stop() when it returns no directory; then translate_story and step 8.
W_Translation(outcome, translated) ==
    /\ Idle
    /\ ss.current_step = 7
    /\ translated \subseteq ss.target_languages
    /\ IF ss.story_dir = "none" /\ outcome = "fails_early"
       THEN UNCHANGED <<ss, finalized>>
       ELSE IF ss.story_dir = "none" /\ outcome = "fails_late"
       THEN /\ ss' = [ss EXCEPT !.story_dir = "dir"]
            /\ UNCHANGED finalized
       ELSE /\ ss' = [ss EXCEPT !.story_dir = "dir",
                                !.translated_files = translated,
                                !.current_step = 8]
            /\ finalized' = (finalized \/ ss.story_dir = "none")
    /\ UNCHANGED <<dg_pc, dg_tasks, dg_lists, dg_dialogues>>
    /\ UNCHANGED <<episodes, notWz>>

\* Step 8, "Generate New Story": every key is deleted, then init_session_state.
W_NewStory ==
    /\ Idle
    /\ ss.current_step = 8
    /\ ss' = InitSession
    /\ episodes' = <<>>
    /\ finalized' = FALSE
    /\ dg_tasks' = <<>>
    /\ dg_lists' = <<>>
    /\ dg_dialogues' = EmptyDict
    /\ UNCHANGED dg_pc
    /\ UNCHANGED notWz

DialogueActions ==
    \/ D_Begin
    \/ \E i \in DOMAIN dg_tasks : D_Start(i)
    \/ \E i \in DOMAIN dg_tasks, outcome \in DialogueOutcomes : D_CallEnd(i, outcome)
    \/ \E i \in DOMAIN dg_tasks : D_CheckLog(i)
    \/ \E i \in DOMAIN dg_tasks : D_CreateLog(i)
    \/ \E i \in DOMAIN dg_tasks : D_LoadLog(i)
    \/ \E i \in DOMAIN dg_tasks : D_AppendLog(i)
    \/ \E i \in DOMAIN dg_tasks : D_Collect(i)
    \/ D_Return

\* The lists split_into_episodes can store.
WizardSplitResults ==
    {ParseEpisodes(r, n) : r \in ResponseCases, n \in WizardEpisodeCounts}

\* The app at step 5, as enhance_episodes leaves it for an episode list of
\* split_into_episodes, before "Generate Dialogue" is pressed.
InitDialogue ==
    /\ ExtraOff
    /\ TranslateOff
    /\ FanoutOff
    /\ PipelineOff
    /\ episodes \in WizardSplitResults
    /\ \E failing \in SUBSET (DOMAIN episodes) :
          \E enhanced \in EnhancedDicts(episodes, failing) :
             ss = [InitSession EXCEPT !.current_step = 5,
                                      !.num_episodes = Len(episodes),
                                      !.plot = "plot",
                                      !.characters = GeneratedCharacters,
                                      !.enhanced_episodes = enhanced]
    /\ finalized = FALSE
    /\ dg_pc = "off"
    /\ dg_tasks = <<>>
    /\ dg_lists = <<>>
    /\ dg_dialogues = EmptyDict

NextDialogue == DialogueActions

SpecDialogue == InitDialogue /\ [][NextDialogue]_vars

\* The sequences without repetition over a set.
RECURSIVE Orderings(_)
Orderings(S) ==
    IF S = {} THEN {<<>>}
    ELSE UNION {{Append(o, x) : o \in Orderings(S \ {x})} : x \in S}

\* The error logs a run of generate_dialogue can leave when the workers of
\* the tasks in failing raise: the workers check for the key, create the list
\* and append to it without synchronisation, so the list the session ends
\* with holds the records of some of them, at least one, in any order.
ErrorLogs(failing) ==
    UNION {Orderings({ErrorRecord(i) : i \in kept}) : kept \in (SUBSET failing) \ {{}}}

\* The dialogues dicts the collecting loop can end with: one entry per
\* episode number, the result collected last for that number.
DialogueDicts(outcomes) ==
    LET numbers == Numbers(episodes)
        result(i) == CASE outcomes[i] = "ok" -> Dialogue(i)
                       [] outcomes[i] = "empty" -> DialogueFailed(i)
                       [] OTHER -> DialogueError(i)
    IN {[n \in numbers |-> result(last[n])] :
           last \in {g \in [numbers -> DOMAIN episodes] :
                        \A n \in numbers : episodes[g[n]].number = n}}

\* Step 5, "Generate Dialogue": generate_dialogue as a whole.
W_GenerateDialogue(outcomes, result, log) ==
    /\ Idle
    /\ ss.current_step = 5
    /\ result \in DialogueDicts(outcomes)
    /\ LET failing == {i \in DOMAIN episodes : outcomes[i] = "fail"} IN
         IF failing = {}
         THEN /\ log = <<>>
              /\ ss' = [ss EXCEPT !.dialogues = result, !.current_step = 6]
              /\ UNCHANGED dg_lists
         ELSE /\ log \in ErrorLogs(failing)
              /\ dg_lists' = <<log>>
              /\ ss' = [ss EXCEPT !.dialogues = result, !.current_step = 6,
                                  !.error_log = 1]
    /\ UNCHANGED <<finalized, dg_pc, dg_tasks, dg_dialogues>>
    /\ UNCHANGED <<episodes, notWz>>

InitWizard ==
    /\ ExtraOff
    /\ TranslateOff
    /\ FanoutOff
    /\ PipelineOff
    /\ WizardOff
    /\ episodes = <<>>

NextWizard ==
    \/ \E languages \in WizardLanguages, n \in WizardEpisodeCounts, outcome \in Outcomes :
          W_Submit(languages, n, outcome)
    \/ \E outcome \in Outcomes : W_AcceptOutline(outcome)
    \/ W_RefineOutline
    \/ \E feedback \in WizardFeedback, outcome \in Outcomes :
          W_SubmitOutlineFeedback(feedback, outcome)
    \/ \E outcome \in Outcomes : W_ContinueToCharacters(outcome)
    \/ \E outcome \in Outcomes, response \in ResponseCases :
          W_AcceptCharacters(outcome, response)
    \/ W_RefineCharacters
    \/ \E feedback \in WizardFeedback, outcome \in Outcomes :
          W_SubmitCharacterFeedback(feedback, outcome)
    \/ \E failing \in SUBSET (DOMAIN episodes) :
          \E enhanced \in EnhancedDicts(episodes, failing) : W_Enhance(failing, enhanced)
    \/ \E outcomes \in [DOMAIN episodes -> DialogueOutcomes] :
          \E result \in DialogueDicts(outcomes),
             log \in {<<>>} \cup ErrorLogs({i \in DOMAIN episodes : outcomes[i] = "fail"}) :
             W_GenerateDialogue(outcomes, result, log)
    \/ W_ProceedToTranslation
    \/ \E outcome \in FinalizeOutcomes, translated \in SUBSET ss.target_languages :
          W_Translation(outcome, translated)
    \/ W_NewStory

SpecWizard == InitWizard /\ [][NextWizard]_vars

\* The steps of the wizard, "Topic" to "Final Story".
WizardSteps == 0..8

\* C29: current_step always lies in 0..8; a script run never lowers it
\* except "Generate New Story", which takes it from 8 to 0; a run that
\* raises it raises it by one, or from 6 to 8 when no translation language
\* is selected; a feedback submission at step 1 or 3 leaves it as it was.
C29_StepsOnlyForwardByOne ==
    [][ /\ ss.current_step \in WizardSteps
        /\ ss'.current_step \in WizardSteps
        /\ ss'.current_step < ss.current_step =>
               ss.current_step = 8 /\ ss' = InitSession
        /\ ss'.current_step > ss.current_step =>
               \/ ss'.current_step = ss.current_step + 1
               \/ /\ ss.current_step = 6
                  /\ ss'.current_step = 8
                  /\ ss.target_languages = {}
        /\ ( \/ ss.outline # ss'.outline /\ ss.current_step = 1
             \/ ss.characters # ss'.characters /\ ss.current_step = 3
             \/ /\ ss.current_step = 1
                /\ ss.show_outline_feedback /\ ~ss'.show_outline_feedback
             \/ /\ ss.current_step = 3
                /\ ss.show_character_feedback /\ ~ss'.show_character_feedback ) =>
               ss'.current_step = ss.current_step
      ]_vars

\* The final step, reached from step 6 with no language selected, after a
\* refinement of the outline and one of the characters.
C29_Witness ==
    /\ ss.current_step = 8
    /\ ss.target_languages = {}
    /\ ss.outline # <<>>
    /\ ss.characters.feedback # <<>>

\* Every episode of the split is a generic placeholder.
AllPlaceholders(eps) ==
    \A k \in DOMAIN eps :
        /\ eps[k].title = GenericTitle(eps[k].number)
        /\ eps[k].content = GenericContent(eps[k].number)

\* C6: when generate_dialogue of the app has returned, the error log of the
\* session holds the record of every worker whose dialogue call raised: no
\* record is lost to another worker.
C6_NoErrorRecordLost ==
    (dg_pc = "off" /\ ss.current_step = 6) =>
        \A i \in DOMAIN dg_tasks :
            dg_tasks[i].outcome = "fail" =>
                \E k \in DOMAIN SessionErrorLog : SessionErrorLog[k] = ErrorRecord(i)

\* C8: the app is never past the split step (enhancing, or further on) with
\* an episode list that consists of placeholders only.
C8_NoEnhancementOfPlaceholders ==
    ss.current_step >= 5 => ~AllPlaceholders(episodes)

\* C9: whenever the app is at step 8, finalize_story has run to its end and
\* st.session_state.story_dir is set.
C9_FinalStepHasPersisted ==
    ss.current_step = 8 => (finalized /\ ss.story_dir # "none")

\* C7: when every model call succeeds, generate_story_pipeline does not abort:
\* it goes from Plot through Split on to Enhance.
C7_NoAbortWhenCallsSucceed ==
    pipe_pc = "aborted" => model_failed

\* C10: in the outline loop and in the characters loop, an acceptance ('y',
\* 'yes' in any case, with blanks around) is the only answer that moves the
\* pipeline forward, and it changes nothing else; a 'n' or 'no' makes exactly
\* one refinement call, whose result replaces the current outline (or the
\* pipeline aborts when refine_outline raises); any other answer changes
\* neither the stage, the outline, the characters nor the number of calls.
C10_AcceptGatesTheForwardStep ==
    [][ /\ pipe_pc = "outline_feedback" =>
             IF answer' \in {"yes", "y", " Yes"}
             THEN /\ pipe_pc' = "characters"
                  /\ outline' = outline
                  /\ refine_calls' = refine_calls
             ELSE IF answer' \in {"NO", "n"}
             THEN /\ refine_calls' = [refine_calls EXCEPT !.outline = @ + 1]
                  /\ \/ /\ pipe_pc' = "outline_feedback"
                        /\ \E f \in FeedbackTexts : outline' = RefineOutline(outline, f)
                     \/ /\ pipe_pc' = "aborted"
                        /\ outline' = outline
             ELSE /\ pipe_pc' = "outline_feedback"
                  /\ outline' = outline
                  /\ refine_calls' = refine_calls
        /\ pipe_pc = "characters_feedback" =>
             IF answer' \in {"yes", "y", " Yes"}
             THEN /\ pipe_pc' = "plot"
                  /\ characters' = characters
                  /\ refine_calls' = refine_calls
             ELSE IF answer' \in {"NO", "n"}
             THEN /\ refine_calls' = [refine_calls EXCEPT !.characters = @ + 1]
                  /\ pipe_pc' = "characters_feedback"
             ELSE /\ pipe_pc' = "characters_feedback"
                  /\ characters' = characters
                  /\ refine_calls' = refine_calls
        /\ pipe_pc' = "characters" /\ pipe_pc # "characters" =>
             pipe_pc = "outline_feedback" /\ answer' \in {"yes", "y", " Yes"}
        /\ pipe_pc' = "plot" /\ pipe_pc # "plot" =>
             pipe_pc = "characters_feedback" /\ answer' \in {"yes", "y", " Yes"}
      ]_vars

\* The operator has refused the outline twice, then accepted the twice
\* refined outline, and has refused the characters once.
C10_Witness ==
    /\ pipe_pc = "characters_feedback"
    /\ outline = <<"darker", "shorter">>
    /\ refine_calls = [outline |-> 2, characters |-> 1]
    /\ characters.feedback = <<"shorter">>
    /\ answer = "NO"

C25_FailedRefineKeepsCharacters ==
    [][ (refine_calls'.characters = refine_calls.characters + 1 /\ refine_raised') =>
          /\ characters' = characters
          /\ pipe_pc' = "characters_feedback"
      ]_vars

\* A refinement succeeded, the next one failed: the loop still waits with the
\* characters of the first.
C25_Witness ==
    /\ pipe_pc = "characters_feedback"
    /\ refine_raised
    /\ refine_calls.characters = 2
    /\ characters = [base |-> "generated", feedback |-> <<"darker">>]

MaxLanguages == 3

LanguageNames == {"Hindi", "Tamil"}

\* The target_languages lists tried; a language may be named twice.
LanguageLists == {<<>>} \cup SeqsUpTo(LanguageNames, MaxLanguages)

\* os.path.join(story_dir, f"final_story_{language.lower()}.md")
TranslatedFile(language) == [file |-> "final_story", language |-> language]

\* What translate_to_language returns in place of the file when it fails.
NoFile == [file |-> "None", language |-> ""]

\* translated_files.append((language, file_path)) when file_path is not None.
AppendTranslated(files, language, file_path) ==
    IF file_path # NoFile
    THEN Append(files, [language |-> language, file_path |-> file_path])
    ELSE files

\* The collecting loop with the results sorted by the position of their
\* language afterwards: what a loop over the futures in submission order gives.
RECURSIVE InSubmissionOrder(_, _, _)
InSubmissionOrder(tasks, k, acc) ==
    IF k > Len(tasks) THEN acc
    ELSE InSubmissionOrder(tasks, k + 1,
                           AppendTranslated(acc, target_languages[k], tasks[k].file_path))

\* max_workers = min(10, len(target_languages))
LanguageWorkers == Min(EpisodePoolCap, Len(target_languages))

\* The entry of translate_story_parallel: an empty list returns at once,
\* otherwise every language is submitted to the pool.
L_Begin ==
    /\ tsp_pc = "called"
    /\ IF target_languages = <<>>
       THEN /\ tsp_pc' = "returned"
            /\ UNCHANGED tsp_tasks
       ELSE /\ tsp_pc' = "pool"
            /\ tsp_tasks' = [l \in DOMAIN target_languages |->
                               [st |-> "queued", file_path |-> NoFile, collected |-> FALSE]]
    /\ UNCHANGED <<target_languages, translated_files>>
    /\ UNCHANGED notLg

\* A pool worker takes the next language and enters translate_to_language.
L_Start(l) ==
    /\ tsp_pc = "pool"
    /\ l \in DOMAIN tsp_tasks
    /\ tsp_tasks[l].st = "queued"
    /\ \A j \in 1..(l - 1) : tsp_tasks[j].st # "queued"
    /\ Cardinality({j \in DOMAIN tsp_tasks : tsp_tasks[j].st = "running"}) < LanguageWorkers
    /\ tsp_tasks' = [tsp_tasks EXCEPT ![l].st = "running"]
    /\ UNCHANGED <<tsp_pc, target_languages, translated_files>>
    /\ UNCHANGED notLg

\* translate_to_language ends: the file it wrote, or None after an exception.
L_Finish(l, outcome) ==
    /\ tsp_pc = "pool"
    /\ l \in DOMAIN tsp_tasks
    /\ tsp_tasks[l].st = "running"
    /\ tsp_tasks' = [tsp_tasks EXCEPT
                       ![l].st = "done",
                       ![l].file_path = IF outcome = "ok"
                                        THEN TranslatedFile(target_languages[l])
                                        ELSE NoFile]
    /\ UNCHANGED <<tsp_pc, target_languages, translated_files>>
    /\ UNCHANGED notLg

\* as_completed yields a finished future.
L_Collect(l) ==
    /\ tsp_pc = "pool"
    /\ l \in DOMAIN tsp_tasks
    /\ tsp_tasks[l].st = "done"
    /\ ~tsp_tasks[l].collected
    /\ tsp_tasks' = [tsp_tasks EXCEPT ![l].collected = TRUE]
    /\ translated_files' =
           AppendTranslated(translated_files, target_languages[l], tsp_tasks[l].file_path)
    /\ UNCHANGED <<tsp_pc, target_languages>>
    /\ UNCHANGED notLg

\* return translated_files
L_Return ==
    /\ tsp_pc = "pool"
    /\ \A l \in DOMAIN tsp_tasks : tsp_tasks[l].collected
    /\ tsp_pc' = "returned"
    /\ UNCHANGED <<target_languages, tsp_tasks, translated_files>>
    /\ UNCHANGED notLg

InitLanguages ==
    /\ TranslateOff
    /\ FanoutOff
    /\ PipelineOff
    /\ WizardOff
    /\ ImproveOff
    /\ HarnessOff
    /\ SplitOff
    /\ ReportOff
    /\ ParseOff
    /\ ConsistencyOff
    /\ DialogueAgentOff
    /\ episodes = <<>>
    /\ tsp_pc = "called"
    /\ target_languages \in LanguageLists
    /\ tsp_tasks = <<>>
    /\ translated_files = <<>>

NextLanguages ==
    \/ L_Begin
    \/ \E l \in DOMAIN tsp_tasks : L_Start(l)
    \/ \E l \in DOMAIN tsp_tasks, outcome \in Outcomes : L_Finish(l, outcome)
    \/ \E l \in DOMAIN tsp_tasks : L_Collect(l)
    \/ L_Return

SpecLanguages == InitLanguages /\ [][NextLanguages]_vars

\* C12: translate_story_parallel returns the results of the languages it
\* translated in the order of their positions in target_languages, whatever
\* the order in which the translations completed.
C12_ResultsInLanguageOrder ==
    tsp_pc = "returned" => translated_files = InSubmissionOrder(tsp_tasks, 1, <<>>)

\* ------------------------------------------- _parse_episodes, step by step
\* splitter_agent.py, lines 134-194, on a response of which it is known what
\* each of the four approaches makes: the loop over parsing_approaches one
\* iteration at a time, then the rest of the function.

\* What the approaches can parse: episodes with the title or the content
\* empty too (_parse_with_specific_markers takes "TITLE:" followed by a
\* newline, and "CONTENT:" followed at once by "CLIFFHANGER:", as they come).
CandidateEpisodes ==
    {[number |-> n, title |-> tc[1], content |-> tc[2], cliffhanger |-> Txt("x")] :
        n \in 1..MaxEpisodeNumber,
        tc \in {<<Txt("A"), Txt("c")>>, <<EmptyTxt, Txt("c")>>, <<Txt("A"), EmptyTxt>>}}
CandidateLists == SeqsUpTo(CandidateEpisodes, MaxParsed)

\* The responses: each approach raises, finds nothing or parses the list.
ApproachBehaviours == [1..4 -> {"raises", "nothing", "finds"}]
Responses ==
    {[j \in 1..4 |-> IF does[j] = "raises" THEN Raises
                     ELSE IF does[j] = "nothing" THEN FindsNothing
                     ELSE Finds(eps)] :
        does \in ApproachBehaviours, eps \in CandidateLists}

\* One iteration of the loop of lines 146-155 without its except clause.
IterationNoExcept(outcome) ==
    IF outcome.raised THEN "raise"
    ELSE IF Len(outcome.episodes) > 0 THEN "break" ELSE "next"

\* One iteration of the loop of lines 146-155, on what the approach does:
\* an exception is caught and the loop continues; a non-empty list is kept
\* and the loop left; an empty or None result lets the loop go on.
Iteration(outcome) ==
    IF outcome.raised THEN "next"
    ELSE IF Len(outcome.episodes) > 0 THEN "break" ELSE "next"

\* The loop with its break taken out: every approach is called, and the
\* last non-empty list stays in episodes.
PE_ApproachNoBreak ==
    /\ pe_pc = "loop"
    /\ LET k == Len(pe_called) + 1
           how == Iteration(pe_response[k]) IN
       /\ pe_called' = Append(pe_called, k)
       /\ pe_episodes' = IF how = "break" THEN pe_response[k].episodes ELSE pe_episodes
       /\ pe_pc' = IF how = "raise" THEN "raised"
                   ELSE IF k = 4 THEN "parsed" ELSE "loop"
    /\ UNCHANGED <<pe_response, pe_num, pe_result>>
    /\ UNCHANGED notPe

\* The next approach of parsing_approaches is called.
PE_Approach ==
    /\ pe_pc = "loop"
    /\ LET k == Len(pe_called) + 1
           how == Iteration(pe_response[k]) IN
       /\ pe_called' = Append(pe_called, k)
       /\ pe_episodes' = IF how = "break" THEN pe_response[k].episodes ELSE pe_episodes
       /\ pe_pc' = IF how = "raise" THEN "raised"
                   ELSE IF how = "break" \/ k = 4 THEN "parsed" ELSE "loop"
    /\ UNCHANGED <<pe_response, pe_num, pe_result>>
    /\ UNCHANGED notPe

\* Lines 157-194: the rest of the function, to its return.
PE_Return ==
    /\ pe_pc = "parsed"
    /\ pe_result' = AfterLoop(pe_episodes, pe_num)
    /\ pe_pc' = "returned"
    /\ UNCHANGED <<pe_response, pe_num, pe_called, pe_episodes>>
    /\ UNCHANGED notPe

InitParse ==
    /\ TranslateOff
    /\ FanoutOff
    /\ PipelineOff
    /\ WizardOff
    /\ ImproveOff
    /\ HarnessOff
    /\ SplitOff
    /\ ReportOff
    /\ LanguagesOff
    /\ ConsistencyOff
    /\ DialogueAgentOff
    /\ episodes = <<>>
    /\ pe_pc = "loop"
    /\ pe_response \in Responses
    /\ pe_num \in NumEpisodesChoices
    /\ pe_called = <<>>
    /\ pe_episodes = <<>>
    /\ pe_result = <<>>

NextParse ==
    \/ PE_Approach
    \/ PE_Return

SpecParse == InitParse /\ [][NextParse]_vars

\* The step-by-step function returns what ParseEpisodes computes.
ParseAgreesWithOperator ==
    pe_pc = "returned" => pe_result = ParseEpisodes(pe_response, pe_num)

IsPlaceholder(e) ==
    /\ e.title = GenericTitle(e.number)
    /\ e.content = GenericContent(e.number)

\* C13: _parse_episodes returns without raising for every response and every
\* num_episodes >= 1, and when no approach yields any episode (raising
\* included) it returns exactly num_episodes placeholder episodes, numbered
\* 1..num_episodes in this order.
C13_ReturnsAndFallsBackToPlaceholders ==
    /\ pe_pc # "raised"
    /\ (pe_pc = "returned" /\ NoEpisodeParsed(pe_response)) =>
           /\ Len(pe_result) = pe_num
           /\ \A k \in 1..pe_num :
                  pe_result[k].number = k /\ IsPlaceholder(pe_result[k])

C13_Witness ==
    /\ pe_pc = "returned"
    /\ pe_num = MaxNumEpisodes
    /\ pe_response = [j \in 1..4 |-> IF j = 2 THEN FindsNothing ELSE Raises]
    /\ Len(pe_result) = MaxNumEpisodes

Succeeds(outcome) == ~outcome.raised /\ Len(outcome.episodes) > 0

\* C15: _parse_episodes calls the approaches in the order specific-markers,
\* episode-splitter, number-title, loose; an approach that raises or returns
\* an empty list counts as failed; the list of the first approach that
\* returns a non-empty one is taken, and no approach is called after it.
C15_FirstSuccessfulApproachWins ==
    /\ pe_called = [i \in 1..Len(pe_called) |-> i]
    /\ \A j \in 1..(Len(pe_called) - 1) : ~Succeeds(pe_response[j])
    /\ pe_pc \in {"parsed", "returned"} =>
          \/ /\ Succeeds(pe_response[Len(pe_called)])
             /\ pe_episodes = pe_response[Len(pe_called)].episodes
          \/ /\ Len(pe_called) = 4
             /\ \A j \in 1..4 : ~Succeeds(pe_response[j])
             /\ pe_episodes = <<>>

C15_Witness ==
    /\ pe_pc = "returned"
    /\ pe_called = <<1, 2>>
    /\ pe_response[1] = Raises
    /\ Succeeds(pe_response[2])
    /\ Succeeds(pe_response[3])
    /\ pe_response[4] = Raises
    /\ pe_episodes = pe_response[2].episodes

\* C16: every episode _parse_episodes returns has a non-empty title and a
\* non-empty content after trimming, or is a placeholder; a parsed candidate
\* with an empty title or content does not reach the result.
C16_EveryEpisodeHasTitleAndContent ==
    pe_pc = "returned" =>
        \A k \in DOMAIN pe_result :
            \/ IsPlaceholder(pe_result[k])
            \/ pe_result[k].title # EmptyTxt /\ pe_result[k].content # EmptyTxt

\* C19: in every list _parse_episodes returns, the last episode of the list
\* sorted by number has an empty cliffhanger, whatever episode numbers the
\* response used.
C19_LastEpisodeHasNoCliffhanger ==
    pe_pc = "returned" => pe_result[Len(pe_result)].cliffhanger = EmptyTxt

\* C27: the episode numbers of the list _parse_episodes returns are exactly
\* 1..num_episodes in ascending order, each once: the list has num_episodes
\* episodes and the k-th is numbered k.
C27_NumbersAreOneToNumEpisodes ==
    pe_pc = "returned" =>
        /\ Len(pe_result) = pe_num
        /\ \A k \in DOMAIN pe_result : pe_result[k].number = k

\* ---------------------------------- ConsistencyChecker and its caller
\* consistency_checker.py, lines 101-283, and step 6 of main in
\* integrated_pipeline.py, lines 49-82.
MaxPlotOptions == 2
MaxIssues == 2

\* An Optional[int]: <<>> for None, <<i>> for the integer i.
None == <<>>
Some(i) == <<i>>

\* The indices a response can name: json.loads takes any integer, the
\* (\d+) of the fallback's regex no negative one.
JsonIndices == -1..(MaxPlotOptions + 1)
SectionIndices == 0..(MaxPlotOptions + 1)

\* An element of the JSON array: its "plot_option_index" (None when absent
\* or null) and whether it has a "plot_option_text".
JsonItems ==
    [plot_option_index : {None} \cup {Some(i) : i \in JsonIndices}, has_text : BOOLEAN]

\* A section "Issue 1: ..." of the fallback: the number after "Plot Option",
\* None when the section names no option.
Sections == [option : {None} \cup {Some(i) : i \in SectionIndices}]

\* What the fallback sees of a text: its issue sections, whether it has the
\* phrase "no issues found" (or a variant) and whether it has more than 20
\* characters after trimming. The last two matter without sections only.
FallbackTexts ==
    {[sections |-> found, sentinel |-> FALSE, long |-> TRUE] :
        found \in SeqsUpTo(Sections, MaxIssues)}
    \cup {[sections |-> <<>>, sentinel |-> st, long |-> lg] : st \in BOOLEAN, lg \in BOOLEAN}

\* The model responses: a text with a JSON array that parses ("array"), a
\* text without brackets ("none"), and a text whose bracketed part makes
\* json.loads or the handling of an element raise after the items given
\* were handled ("invalid").
CheckResponses ==
    {[json |-> "array", items |-> it, sections |-> <<>>, sentinel |-> FALSE, long |-> FALSE] :
        it \in {<<>>} \cup SeqsUpTo(JsonItems, MaxIssues)}
    \cup {[json |-> "none", items |-> <<>>, sections |-> f.sections,
           sentinel |-> f.sentinel, long |-> f.long] : f \in FallbackTexts}
    \cup {[json |-> "invalid", items |-> it, sections |-> f.sections,
           sentinel |-> f.sentinel, long |-> f.long] :
            it \in {<<>>} \cup SeqsUpTo(JsonItems, 1), f \in FallbackTexts}

\* The responses considered for the check of the updated options: a JSON
\* array of one issue, or a text with one issue section.
RecheckResponses ==
    {r \in CheckResponses :
        r.json \in {"array", "none"} /\ Len(r.items) + Len(r.sections) = 1}

\* The invocation of the chain raised.
InvokeRaised ==
    [json |-> "raised", items |-> <<>>, sections |-> <<>>, sentinel |-> FALSE, long |-> FALSE]

\* A ConsistencyIssue: its plot_option_index and its issue_type.
Issue(idx) == [plot_option_index |-> idx, issue_type |-> "Inconsistency"]
ParsingErrorIssue == [plot_option_index |-> None, issue_type |-> "Parsing Error"]
ProcessingErrorIssue == [plot_option_index |-> None, issue_type |-> "Processing Error"]

\* Lines 118-137: the issue made of an element of the JSON array, with the
\* index as the response gave it, and the index at which plot_options was
\* read for the text.
JsonIssue(item, n) ==
    LET plot_idx == item.plot_option_index IN
    [issue |-> Issue(plot_idx),
     accessed |-> IF plot_idx # None /\ ~item.has_text /\ 0 <= plot_idx[1] /\ plot_idx[1] < n
                  THEN {plot_idx[1]} ELSE {}]

\* Lines 156-203: the issue made of a section of the fallback. An index of
\* len(plot_options) or more is lowered by one.
SectionIssue(section, n) ==
    LET found == section.option
        plot_idx == IF found # None /\ found[1] >= n
                    THEN Some(IF found[1] > 0 THEN found[1] - 1 ELSE 0)
                    ELSE found IN
    [issue |-> Issue(plot_idx),
     accessed |-> IF plot_idx # None /\ 0 <= plot_idx[1] /\ plot_idx[1] < n
                  THEN {plot_idx[1]} ELSE {}]

\* _parse_issues_from_response on a response and a list of n plot options:
\* the issues it returns and the indices at which it read plot_options.
ParseIssuesFromResponse(response, n) ==
    LET fromJson == [k \in DOMAIN response.items |-> JsonIssue(response.items[k], n)]
        fromText == [k \in DOMAIN response.sections |-> SectionIssue(response.sections[k], n)]
        accessed == UNION ({fromJson[k].accessed : k \in DOMAIN fromJson}
                           \cup {fromText[k].accessed : k \in DOMAIN fromText})
        issues ==
            IF response.json = "array"
            THEN [k \in DOMAIN fromJson |-> fromJson[k].issue]
            ELSE IF fromText # <<>> THEN [k \in DOMAIN fromText |-> fromText[k].issue]
            ELSE IF response.sentinel THEN <<>>
            ELSE IF response.long THEN <<ParsingErrorIssue>>
            ELSE <<>>
    IN [issues |-> issues, accessed |-> accessed]

\* check_plot_consistency: the issues parsed from the response, or one
\* "Processing Error" issue when the invocation raised. The update of the
\* knowledge graph enumerates plot_options and reads no element by index.
CheckPlotConsistency(response, n) ==
    IF response = InvokeRaised
    THEN [issues |-> <<ProcessingErrorIssue>>, accessed |-> {}]
    ELSE ParseIssuesFromResponse(response, n)

\* integrated_pipeline.py, line 61: the indices the issues name.
ProblemIndices(issues) ==
    {issues[k].plot_option_index[1] :
        k \in {j \in DOMAIN issues : issues[j].plot_option_index # None}}

\* Line 62 without its condition.
ProblemPlotsUnguarded(issues, n) == ProblemIndices(issues)

\* Line 62: the problem plots are those of the indices within the list.
ProblemPlots(issues, n) ==
    {idx \in ProblemIndices(issues) : 0 <= idx /\ idx < n}

\* Line 51: the user does not ask for the check.
IP_Decline ==
    /\ cc_pc = "offer"
    /\ cc_pc' = "select"
    /\ UNCHANGED <<plot_options, cc_response, cc_issues, cc_accessed>>
    /\ UNCHANGED notCc

\* Lines 53-54: the check, with the response the model gave.
IP_Check ==
    /\ cc_pc = "offer"
    /\ \E response \in CheckResponses \cup {InvokeRaised} :
         LET checked == CheckPlotConsistency(response, Len(plot_options)) IN
         /\ cc_issues' = checked.issues
         /\ cc_accessed' = cc_accessed \cup checked.accessed
         /\ cc_response' = response
    /\ cc_pc' = "checked"
    /\ UNCHANGED plot_options
    /\ UNCHANGED notCc

\* Lines 57-59: no issue, or the user does not ask for new options.
IP_Keep ==
    /\ cc_pc = "checked"
    /\ cc_pc' = "select"
    /\ UNCHANGED <<plot_options, cc_response, cc_issues, cc_accessed>>
    /\ UNCHANGED notCc

\* Lines 60-77: the problem plots are collected and replaced by as many
\* improved options as generate_improved_suggestions returns, one each.
IP_Regenerate ==
    /\ cc_pc = "checked"
    /\ cc_issues # <<>>
    /\ LET problem_plots == ProblemPlots(cc_issues, Len(plot_options)) IN
       /\ cc_accessed' = cc_accessed \cup problem_plots
       /\ plot_options' = [i \in DOMAIN plot_options |->
                              IF (i - 1) \in problem_plots THEN "improved"
                              ELSE plot_options[i]]
       /\ cc_pc' = IF problem_plots # {} THEN "recheck" ELSE "select"
    /\ UNCHANGED <<cc_response, cc_issues>>
    /\ UNCHANGED notCc

\* Lines 81-82: the check of the updated options; its issues go to
\* new_issues, which is displayed and not used again.
IP_Recheck ==
    /\ cc_pc = "recheck"
    /\ \E response \in RecheckResponses \cup {InvokeRaised} :
         LET checked == CheckPlotConsistency(response, Len(plot_options)) IN
         cc_accessed' = cc_accessed \cup checked.accessed
    /\ cc_pc' = "select"
    /\ UNCHANGED <<plot_options, cc_response, cc_issues>>
    /\ UNCHANGED notCc

InitConsistency ==
    /\ TranslateOff
    /\ FanoutOff
    /\ PipelineOff
    /\ WizardOff
    /\ ImproveOff
    /\ HarnessOff
    /\ SplitOff
    /\ ReportOff
    /\ LanguagesOff
    /\ ParseOff
    /\ DialogueAgentOff
    /\ episodes = <<>>
    /\ cc_pc = "offer"
    /\ plot_options \in {[i \in 1..n |-> "generated"] : n \in 0..MaxPlotOptions}
    /\ cc_response = NoResponse
    /\ cc_issues = <<>>
    /\ cc_accessed = {}

NextConsistency ==
    \/ IP_Decline
    \/ IP_Check
    \/ IP_Keep
    \/ IP_Regenerate
    \/ IP_Recheck

SpecConsistency == InitConsistency /\ [][NextConsistency]_vars

InRange(idx) == 0 <= idx /\ idx < Len(plot_options)

\* C14: _parse_issues_from_response returns an empty list only when the
\* response is an empty JSON array or has the no-issues phrase; every other
\* response without a parsable issue, the empty or short one included,
\* gives the "Parsing Error" placeholder and not an empty list.
C14_EmptyOnlyWhenNoIssuesIsExplicit ==
    (cc_pc = "checked" /\ cc_issues = <<>>) =>
        \/ cc_response.json = "array" /\ cc_response.items = <<>>
        \/ cc_response.sentinel

\* C17: every issue returned for a list of plot options has a
\* plot_option_index that is None or within [0, len(plot_options)).
C17_IssueIndexWithinOptions ==
    cc_pc = "checked" =>
        \A k \in DOMAIN cc_issues :
            \/ cc_issues[k].plot_option_index = None
            \/ InRange(cc_issues[k].plot_option_index[1])

\* C18: whatever index a response names, negative ones included, parsing
\* the issues, collecting the problem plots and replacing them never reads
\* or writes plot_options at an index outside [0, len(plot_options)).
C18_NoAccessOutOfRange ==
    \A idx \in cc_accessed : InRange(idx)

C18_Witness ==
    /\ cc_pc = "recheck"
    /\ Len(plot_options) = MaxPlotOptions
    /\ cc_response.json = "array"
    /\ \E k \in DOMAIN cc_issues : cc_issues[k].plot_option_index = Some(-1)
    /\ \E k \in DOMAIN cc_issues : cc_issues[k].plot_option_index = Some(0)
    /\ plot_options[1] = "improved"
    /\ cc_accessed = {0}

\* ------------------------------------- DialogueAgent.generate_dialogue
\* dialogue_generation_agent.py, lines 86-119: the invocation of the
\* structured-output chain and, in its except clause, that of the raw chain.
DialogueStyles == {"novel", "drama"}
DialogueInputs ==
    [story_type : DialogueStyles, storyline : EpisodeTexts,
     characters : {DefaultCharacters, GeneratedCharacters}]

\* Lines 93-97 with the exception of the invocation left to the caller.
DA_InvokeNoFallback(outcome) ==
    /\ da_pc = "called"
    /\ da_invocations' = Append(da_invocations, "structured")
    /\ da_pc' = IF outcome = "ok" THEN "returned" ELSE "raised"
    /\ da_result' = IF outcome = "ok" THEN "dialogue_output.dialogue" ELSE da_result
    /\ UNCHANGED da_input
    /\ UNCHANGED notDa

\* Lines 93-100: self.dialogue_generator is invoked; its dialogue is
\* returned, or the except clause is entered.
DA_Invoke(outcome) ==
    /\ da_pc = "called"
    /\ da_invocations' = Append(da_invocations, "structured")
    /\ da_pc' = IF outcome = "ok" THEN "returned" ELSE "fallback"
    /\ da_result' = IF outcome = "ok" THEN "dialogue_output.dialogue" ELSE da_result
    /\ UNCHANGED da_input
    /\ UNCHANGED notDa

\* Lines 102-119: the fallback chain (prompt | self.llm) is invoked; its
\* content is returned, or its exception leaves generate_dialogue.
DA_Fallback(outcome) ==
    /\ da_pc = "fallback"
    /\ da_invocations' = Append(da_invocations, "raw")
    /\ da_pc' = IF outcome = "ok" THEN "returned" ELSE "raised"
    /\ da_result' = IF outcome = "ok" THEN "response.content" ELSE da_result
    /\ UNCHANGED da_input
    /\ UNCHANGED notDa

InitDialogueAgent ==
    /\ TranslateOff
    /\ FanoutOff
    /\ PipelineOff
    /\ WizardOff
    /\ ImproveOff
    /\ HarnessOff
    /\ SplitOff
    /\ ReportOff
    /\ LanguagesOff
    /\ ParseOff
    /\ ConsistencyOff
    /\ episodes = <<>>
    /\ da_pc = "called"
    /\ da_input \in DialogueInputs
    /\ da_invocations = <<>>
    /\ da_result = ""

NextDialogueAgent ==
    \/ \E outcome \in Outcomes : DA_Invoke(outcome)
    \/ \E outcome \in Outcomes : DA_Fallback(outcome)

SpecDialogueAgent == InitDialogueAgent /\ [][NextDialogueAgent]_vars

Severities == {"critical", "Critical", "warning", "minor"}

\* issue.severity.lower()
SeverityLower(severity) ==
    IF severity = "Critical" THEN "critical" ELSE severity

ReportIssues ==
    [plot_option_index : {None} \cup {Some(i) : i \in 0..(MaxPlotOptions - 1)},
     severity : Severities]

\* Lines 293-307: has_critical_issues after the grouping loop.
HasCriticalIssues(issues) ==
    \E k \in DOMAIN issues : SeverityLower(issues[k].severity) = "critical"

\* The value display_consistency_report returns: True for an empty list
\* (line 289), False when an issue is critical (line 337), True otherwise
\* (line 340).
DisplayConsistencyReport(issues) ==
    IF issues = <<>> THEN TRUE
    ELSE IF HasCriticalIssues(issues) THEN FALSE
    ELSE TRUE

RP_Display ==
    /\ rp_pc = "called"
    /\ rp_result' = DisplayConsistencyReport(rp_issues)
    /\ rp_pc' = "returned"
    /\ UNCHANGED rp_issues
    /\ UNCHANGED notRp

InitReport ==
    /\ TranslateOff
    /\ FanoutOff
    /\ PipelineOff
    /\ WizardOff
    /\ ImproveOff
    /\ HarnessOff
    /\ SplitOff
    /\ LanguagesOff
    /\ ParseOff
    /\ ConsistencyOff
    /\ DialogueAgentOff
    /\ episodes = <<>>
    /\ rp_pc = "called"
    /\ rp_issues \in {<<>>} \cup SeqsUpTo(ReportIssues, MaxIssues)
    /\ rp_result = FALSE

NextReport == RP_Display

SpecReport == InitReport /\ [][NextReport]_vars

\* C21: display_consistency_report returns whether there are critical
\* issues: True exactly when at least one of the issues has the severity
\* "critical" in any case, and False otherwise, the empty list included.
C21_ReturnsWhetherCritical ==
    rp_pc = "returned" => (rp_result <=> HasCriticalIssues(rp_issues))

\* ---------------------------------- TranslatorAgent._split_into_chunks
\* translator_agent.py, lines 53-90, applied to a text and a max_chunk_size.
\* A text is the sequence of the word counts of its paragraphs (re.split
\* returns one paragraph at least); a chunk is the sequence of the positions
\* of the paragraphs joined in it.
ChunkSizes == {1, 1500, DefaultMaxChunkSize}

SC_Split ==
    /\ sc_pc = "called"
    /\ sc_chunks' = SplitIntoChunks(sc_text, sc_max)
    /\ sc_pc' = "returned"
    /\ UNCHANGED <<sc_text, sc_max>>
    /\ UNCHANGED notSc

InitSplit ==
    /\ TranslateOff
    /\ FanoutOff
    /\ PipelineOff
    /\ WizardOff
    /\ ImproveOff
    /\ HarnessOff
    /\ LanguagesOff
    /\ ParseOff
    /\ ConsistencyOff
    /\ DialogueAgentOff
    /\ ReportOff
    /\ episodes = <<>>
    /\ sc_pc = "called"
    /\ sc_text \in Texts
    /\ sc_max \in ChunkSizes
    /\ sc_chunks = <<>>

NextSplit == SC_Split

SpecSplit == InitSplit /\ [][NextSplit]_vars

\* The words of a chunk of a text.
RECURSIVE ChunkWords(_, _)
ChunkWords(text, chunk) ==
    IF chunk = <<>> THEN 0
    ELSE text[chunk[1]] + ChunkWords(text, Tail(chunk))

\* The paragraphs of the chunks, read in chunk order.
RECURSIVE Flatten(_)
Flatten(chunks) ==
    IF chunks = <<>> THEN <<>> ELSE chunks[1] \o Flatten(Tail(chunks))

\* C22: every chunk _split_into_chunks returns has at most max_chunk_size
\* words, for every text and every max_chunk_size >= 1.
C22_ChunkWithinMaxChunkSize ==
    sc_pc = "returned" =>
        \A c \in DOMAIN sc_chunks : ChunkWords(sc_text, sc_chunks[c]) <= sc_max

\* C23: the paragraphs of the returned chunks, read in chunk order, are the
\* paragraphs of the text in their original order, each in exactly one
\* chunk, and no chunk is built from zero paragraphs.
C23_ParagraphsPreserved ==
    sc_pc = "returned" =>
        /\ Flatten(sc_chunks) = [i \in 1..Len(sc_text) |-> i]
        /\ \A c \in DOMAIN sc_chunks : sc_chunks[c] # <<>>

C23_Witness ==
    /\ sc_pc = "returned"
    /\ sc_max = DefaultMaxChunkSize
    /\ sc_text = <<1500, 1500, 3001>>
    /\ sc_chunks = <<(<<1, 2>>), (<<3>>)>>

\* ------------------------------------------------- the test harness
\* test.py, lines 251-361: main checks one component after the other.
MaxTestItems == 3
TestPlotSample == 3

Components ==
    <<"llm_api", "outline_generator", "character_development", "plot_selector",
      "story_splitter", "episode_enhancer", "dialogue_generator">>

\* The components whose failure ends main (lines 265-306).
Required == 1..5

\* The call of split_story in test_story_splitter (line 157): three
\* positional arguments and the keyword num_episodes.
TestSplitCall == [positional |-> 3, keywords |-> {"num_episodes"}]

\* What the test of a component can return, as the number of items of the
\* value; 0 stands for None, False and the empty value. Every test catches
\* the exceptions of its body and returns None (False for llm_api).
TestReturns(c) ==
    CASE c = "llm_api" -> 0..1
      [] c = "outline_generator" -> 0..MaxTestItems
      [] c = "character_development" -> 0..MaxTestItems
      [] c = "plot_selector" -> {Min(TestPlotSample, n) : n \in 0..(MaxTestItems + 1)}
      [] c = "story_splitter" ->
            IF Binds(SplitStoryParams, TestSplitCall) THEN 0..MaxTestItems ELSE {0}
      [] OTHER -> 0..1

\* Lines 255-264: results as main creates it, api_keys being what
\* check_api_keys returned.
InitialResults(api_keys) ==
    [c \in {"api_keys"} \cup {Components[i] : i \in DOMAIN Components} |->
        IF c = "api_keys" THEN api_keys ELSE "None"]
NoValues == [c \in {Components[i] : i \in DOMAIN Components} |-> 0]

\* bool(value), as the entry of results.
Truth(value) == IF value > 0 THEN "True" ELSE "False"

\* main without the early returns of lines 265-306.
TH_CheckNoStop ==
    /\ th_pc = "run"
    /\ LET i == Len(th_checked) + 1
           c == Components[i] IN
       \E value \in TestReturns(c) :
          /\ th_checked' = Append(th_checked, c)
          /\ th_values' = [th_values EXCEPT ![c] = value]
          /\ th_results' = [th_results EXCEPT ![c] = Truth(value)]
          /\ IF i = Len(Components)
             THEN th_pc' = "returned" /\ th_saved' = "test_results"
             ELSE th_pc' = "run" /\ th_saved' = th_saved
    /\ UNCHANGED notTh

\* The next component is checked and its result stored. A failure of one of
\* the first five saves results and returns; after the last component the
\* summary is printed and test_results saved (lines 319-361).
TH_Check ==
    /\ th_pc = "run"
    /\ LET i == Len(th_checked) + 1
           c == Components[i] IN
       \E value \in TestReturns(c) :
          /\ th_checked' = Append(th_checked, c)
          /\ th_values' = [th_values EXCEPT ![c] = value]
          /\ th_results' = [th_results EXCEPT ![c] = Truth(value)]
          /\ IF i \in Required /\ value = 0
             THEN th_pc' = "returned" /\ th_saved' = "results"
             ELSE IF i = Len(Components)
             THEN th_pc' = "returned" /\ th_saved' = "test_results"
             ELSE th_pc' = "run" /\ th_saved' = th_saved
    /\ UNCHANGED notTh

InitHarness ==
    /\ TranslateOff
    /\ FanoutOff
    /\ PipelineOff
    /\ WizardOff
    /\ ImproveOff
    /\ LanguagesOff
    /\ ParseOff
    /\ ConsistencyOff
    /\ DialogueAgentOff
    /\ ReportOff
    /\ SplitOff
    /\ episodes = <<>>
    /\ th_pc = "run"
    /\ th_results \in {InitialResults(api_keys) : api_keys \in {"True", "False"}}
    /\ th_checked = <<>>
    /\ th_values = NoValues
    /\ th_saved = "nothing"

NextHarness == TH_Check

SpecHarness == InitHarness /\ [][NextHarness]_vars

Checked(c) == \E k \in DOMAIN th_checked : th_checked[k] = c

MaxResponseLines == 3

\* len(para.strip()) > 20: the paragraphs the second extraction takes.
SubstantialParagraph == 20

\* The lines of a response, by what the extraction sees in them: a blank
\* line; "1. A new plot", that starts an option; "1. - " and
\* "Option 1 improved version: ", that start an option and are empty once
\* the label is removed; any other text.
LineKinds == {"blank", "numbered", "label", "long_label", "text"}

\* len(line.strip())
LineLength(line) ==
    CASE line = "blank" -> 0
      [] line = "numbered" -> 13
      [] line = "label" -> 4
      [] line = "long_label" -> 26
      [] line = "text" -> 10

\* Line 399: the line starts a new option.
StartsOption(line) == line \in {"numbered", "label", "long_label"}

\* Line 403: the line without its label, as the lines an option is made of.
WithoutLabel(line, i) == IF line = "numbered" THEN <<i>> ELSE <<>>

ParsedOption(lines) == [kind |-> "parsed", lines |-> lines]
ParagraphOption(lines) == [kind |-> "paragraph", lines |-> lines]
FixedVersion(idx) == [kind |-> "fixed", idx |-> idx]
ImprovedVersion(idx) == [kind |-> "improved", idx |-> idx]

\* Lines 401-402 and 410-411: the option read so far is kept when not empty.
SaveOption(options, current_option) ==
    IF current_option # <<>> THEN Append(options, ParsedOption(current_option))
    ELSE options

\* Lines 397-411: the scan of the lines from line i on.
RECURSIVE ScanLines(_, _, _, _)
ScanLines(lines, i, current_option, options) ==
    IF i > Len(lines) THEN SaveOption(options, current_option)
    ELSE IF StartsOption(lines[i])
    THEN ScanLines(lines, i + 1, WithoutLabel(lines[i], i),
                   SaveOption(options, current_option))
    ELSE IF current_option # <<>> \/ lines[i] # "blank"
    THEN ScanLines(lines, i + 1,
                   IF lines[i] = "blank" THEN current_option
                   ELSE Append(current_option, i), options)
    ELSE ScanLines(lines, i + 1, current_option, options)

\* Line 415: re.split(r'\n\s*\n', result_text), the runs of lines between
\* blank lines, from line i on (para: the run being read).
RECURSIVE SplitParagraphs(_, _, _)
SplitParagraphs(lines, i, para) ==
    IF i > Len(lines) THEN <<para>>
    ELSE IF lines[i] = "blank" THEN <<para>> \o SplitParagraphs(lines, i + 1, <<>>)
    ELSE SplitParagraphs(lines, i + 1, Append(para, i))

\* len(para.strip()): the lines and the newlines between them.
RECURSIVE ParagraphLength(_, _)
ParagraphLength(lines, para) ==
    IF para = <<>> THEN 0
    ELSE LineLength(lines[Head(para)])
         + (IF Len(para) > 1 THEN 1 ELSE 0) + ParagraphLength(lines, Tail(para))

\* Lines 414-421: the substantial paragraphs, when the scan found no option.
SubstantialParagraphs(lines) ==
    LET paragraphs == SplitParagraphs(lines, 1, <<>>) IN
    LET RECURSIVE Keep(_)
        Keep(k) ==
            IF k > Len(paragraphs) THEN <<>>
            ELSE IF ParagraphLength(lines, paragraphs[k]) > SubstantialParagraph
            THEN <<ParagraphOption(paragraphs[k])>> \o Keep(k + 1)
            ELSE Keep(k + 1)
    IN Keep(1)

\* Lines 392-426: the options taken from the response: those of the scan,
\* else the substantial paragraphs, else a "Fixed version" of each problem
\* plot option.
ExtractedOptions(lines, problem_plot_options) ==
    LET scanned == ScanLines(lines, 1, <<>>, <<>>) IN
    IF scanned # <<>> THEN scanned
    ELSE IF SubstantialParagraphs(lines) # <<>> THEN SubstantialParagraphs(lines)
    ELSE [k \in DOMAIN problem_plot_options |-> FixedVersion(problem_plot_options[k])]

\* The loop of lines 429-432 not entered.
PadOptionsNone(improved_options, problem_plot_options) == improved_options

\* Lines 429-432: while there are fewer options than problem plot options,
\* an "Improved version of option idx" is appended.
RECURSIVE PadOptions(_, _)
PadOptions(improved_options, problem_plot_options) ==
    IF Len(improved_options) < Len(problem_plot_options)
    THEN PadOptions(Append(improved_options,
                           ImprovedVersion(problem_plot_options[Len(improved_options) + 1])),
                    problem_plot_options)
    ELSE improved_options

\* generate_improved_suggestions: the first len(problem_plot_options) of the
\* padded options; an "Improved version" of each problem plot option when
\* the try block raised.
GenerateImprovedSuggestions(response, problem_plot_options) ==
    IF response.raised
    THEN [k \in DOMAIN problem_plot_options |-> ImprovedVersion(problem_plot_options[k])]
    ELSE LET improved_options ==
                 PadOptions(ExtractedOptions(response.lines, problem_plot_options),
                            problem_plot_options)
         IN SubSeq(improved_options, 1,
                   Min(Len(problem_plot_options), Len(improved_options)))

\* The responses: the model's text, or the exception of the call.
ImproveResponses ==
    {[raised |-> FALSE, lines |-> l] : l \in {<<>>} \cup SeqsUpTo(LineKinds, MaxResponseLines)}
    \cup {[raised |-> TRUE, lines |-> <<>>]}

\* The lists of problem plot options, as the indices idx of their pairs.
ProblemPlotLists == {<<>>} \cup SeqsUpTo(0..(MaxPlotOptions - 1), MaxPlotOptions)

GI_Call ==
    /\ gi_pc = "called"
    /\ gi_result' = GenerateImprovedSuggestions(gi_response, gi_problems)
    /\ gi_pc' = "returned"
    /\ UNCHANGED <<gi_problems, gi_response>>
    /\ UNCHANGED notGi

InitImprove ==
    /\ episodes = <<>>
    /\ TranslateOff
    /\ FanoutOff
    /\ PipelineOff
    /\ WizardOff
    /\ LanguagesOff
    /\ ParseOff
    /\ ConsistencyOff
    /\ DialogueAgentOff
    /\ ReportOff
    /\ SplitOff
    /\ HarnessOff
    /\ gi_pc = "called"
    /\ gi_problems \in ProblemPlotLists
    /\ gi_response \in ImproveResponses
    /\ gi_result = <<>>

NextImprove == GI_Call

SpecImprove == InitImprove /\ [][NextImprove]_vars

\* C26: generate_improved_suggestions returns, for n problem plot options,
\* exactly n options whatever the response: the first n of the options
\* taken from the response when there are n or more, these followed by an
\* "Improved version" placeholder for each missing one when there are
\* fewer, and n such placeholders when the model call failed.
C26_ReturnsOneOptionPerProblemPlot ==
    gi_pc = "returned" =>
        LET n == Len(gi_problems)
            extracted == ExtractedOptions(gi_response.lines, gi_problems) IN
        /\ Len(gi_result) = n
        /\ \A k \in 1..n :
              gi_result[k] =
                  IF ~gi_response.raised /\ k <= Len(extracted) THEN extracted[k]
                  ELSE ImprovedVersion(gi_problems[k])

\* One option read for two problem plot options: the second is a placeholder.
C26_Witness ==
    /\ gi_pc = "returned"
    /\ gi_problems = <<0, 1>>
    /\ gi_response = [raised |-> FALSE, lines |-> <<"numbered", "text", "blank">>]
    /\ gi_result = <<ParsedOption(<<1, 2>>), ImprovedVersion(1)>>

=============================================================================
